---- MODULE Spec2Model ----
(***************************************************************************)
(* Verification model of the portfolio dashboard's client-side data layer: *)
(*   - PortfolioService (lib/portfolioService.ts, two revisions): the      *)
(*     quarter aggregation, the retrying quarter fetch and the real-time   *)
(*     subscription singleton;                                             *)
(*   - SessionManager (last-location persistence);                         *)
(*   - usePortfolioData (the view-state hook).                             *)
(* Each part has its own specification; the variables of the other parts   *)
(* are held at their initial values.                                       *)
(***************************************************************************)
EXTENDS Integers, Sequences, FiniteSets, TLC

VARIABLES
    \* ---- getQuartersSummary (pure reduction over the fetched rows)
    rows,          \* the rows the backend returned (quarter, weight, quarterly_returns)
    summaries,     \* the value getQuartersSummary returned
    aggPc,         \* "input" before the call, "done" after it
    \* ---- SessionManager (last-location persistence in localStorage)
    now,           \* Date.now(), in ms since the page was loaded
    locationItem,  \* localStorage[LOCATION_KEY]: NoItem or the stored JSON text
    lastGet,       \* what the latest getStoredLocation() call saw and returned
    ticks,         \* how many times the clock has advanced (bounds the model)
    \* ---- PortfolioService singleton and the backend table
    tableLog,          \* the states of portfolio_constituents (sets of row ids), in
                       \* commit order; the last one is the table as it is now
    connectionRetries, \* PortfolioService.connectionRetries
    calls,             \* the getPortfolioByQuarter invocations, by call id
    lastSettled,       \* how the call that ended last ended: "returned", "thrown", "none"
    realtimeChannel,   \* PortfolioService.realtimeChannel: a channel id, or NoChannel
    subscribers,       \* PortfolioService.subscribers: a set of callbacks
    channels,          \* the channels created so far, by id (the vendor's side)
    reconnectTimers,   \* pending setTimeout(..., 5000) callbacks of CHANNEL_ERROR, in
                       \* the order they were set, each by the channel that reported
    channelErrors,     \* how many CHANNEL_ERROR statuses were reported
    handles,           \* callbacks for which an unsubscribe function was returned
    lastSeen,          \* per callback, the snapshot it was last called with
    notified,          \* per callback, how many times it was called
    \* ---- usePortfolioData
    ops,               \* the invocations of the service's other operations, by id
    selectedQuarter,   \* a quarter label, or Null
    quarters,          \* the quarter summaries shown (their labels)
    portfolioData,     \* the rows shown
    loading,
    error,             \* NoError, or the message set by setError
    user,              \* useAuth().user is set
    isInitialized,     \* useAuth().isInitialized
    hookSub,           \* the subscription effect holds an unsubscribe function
    \* ---- AuthProvider, the vendor's auth client and the browser
    vendorSession,     \* the session the vendor's client holds, or NoSession
    session,           \* AuthProvider's session state
    authUser,          \* AuthProvider's user state: a user id, or Null
    authInitialized,   \* AuthProvider's isInitialized state
    lastUserLocation,  \* localStorage['lastUserLocation']: a path, or NoLocation
    pathname,          \* window.location.pathname
    authEvents,        \* auth state changes announced and not yet handled
    authTasks,         \* async functions of the page waiting on an await
    redirectTimers,    \* pending setTimeout(..., 100) callbacks, by their target
    authEmitted        \* how many auth events were announced (bounds the model)

aggVars == <<rows, summaries, aggPc>>

sessVars == <<now, locationItem, lastGet, ticks>>

svcVars == <<tableLog, connectionRetries, calls, lastSettled>>

chanVars == <<realtimeChannel, subscribers, channels, reconnectTimers, channelErrors,
              handles, lastSeen, notified>>

opsVars == <<ops>>

hookVars == <<selectedQuarter, quarters, portfolioData, loading, error, user,
              isInitialized, hookSub>>

authVars == <<vendorSession, session, authUser, authInitialized, lastUserLocation,
              pathname, authEvents, authTasks, redirectTimers, authEmitted>>

vars == <<rows, summaries, aggPc, now, locationItem, lastGet, ticks,
          tableLog, connectionRetries, calls, lastSettled,
          realtimeChannel, subscribers, channels, reconnectTimers, channelErrors,
          handles, lastSeen, notified, ops,
          selectedQuarter, quarters, portfolioData, loading, error, user, isInitialized,
          hookSub,
          vendorSession, session, authUser, authInitialized, lastUserLocation,
          pathname, authEvents, authTasks, redirectTimers, authEmitted>>

nonAggVars == <<sessVars, svcVars, chanVars, opsVars, hookVars, authVars>>

nonSessVars == <<aggVars, svcVars, chanVars, opsVars, hookVars, authVars>>

nonAuthVars == <<aggVars, sessVars, svcVars, chanVars, opsVars, hookVars>>

\* what neither getPortfolioByQuarter, the channel nor the hook's effects touch
otherVars == <<aggVars, sessVars, opsVars, authVars>>

\* what neither getPortfolioByQuarter nor the channel touches
outerVars == <<aggVars, sessVars, opsVars, hookVars, authVars>>

(***************************************************************************)
(* JavaScript numbers.  Every number of the program is an IEEE-754 double. *)
(* The rows of the model carry integer-valued weights and returns, on      *)
(* which + is exact (|sums| < 2^53), so sums are modelled as Int.  The     *)
(* division total_returns / total_stocks rounds: its result is modelled    *)
(* bit for bit as a double (sign, exponent, 53-bit significand, most       *)
(* significant bit first), rounded to nearest, ties to even.               *)
(***************************************************************************)
MantissaBits == 53

Abs(k) == IF k < 0 THEN -k ELSE k

Sign(k) == IF k < 0 THEN -1 ELSE IF k = 0 THEN 0 ELSE 1

Zeros(n) == [i \in 1..n |-> 0]

\* The binary digits of a natural number, most significant first (<<>> for 0).
RECURSIVE NatBits(_)
NatBits(k) == IF k = 0 THEN <<>> ELSE Append(NatBits(k \div 2), k % 2)

\* 2^e mod b, by repeated squaring.
RECURSIVE PowMod2(_, _)
PowMod2(e, b) ==
    IF e = 0 THEN 1 % b
    ELSE LET h == PowMod2(e \div 2, b)
         IN  (((h * h) % b) * (IF e % 2 = 1 THEN 2 ELSE 1)) % b

\* The first `count` binary digits of rem / b after the binary point (rem < b):
\* digit i is floor(rem * 2^i / b) mod 2 = floor(2 * (rem * 2^(i-1) mod b) / b).
FracBits(rem, b, count) ==
    [i \in 1..count |-> (2 * ((rem * PowMod2(i - 1, b)) % b)) \div b]

\* The remainder left after those `count` digits: nonzero iff digits were cut off.
FracRem(rem, b, count) == (rem * PowMod2(count, b)) % b

\* The least s with a * 2^s >= b  (a >= 1).
RECURSIVE ScaleUp(_, _)
ScaleUp(a, b) == IF a >= b THEN 0 ELSE 1 + ScaleUp(2 * a, b)

RECURSIVE Pow2(_)
Pow2(s) == IF s = 0 THEN 1 ELSE 2 * Pow2(s - 1)

\* A significand plus one unit in the last place (not all ones).
Increment(m) ==
    LET j == CHOOSE j \in 1..Len(m) :
                 m[j] = 0 /\ \A k \in (j + 1)..Len(m) : m[k] = 1
    IN  [i \in 1..Len(m) |-> IF i < j THEN m[i] ELSE IF i = j THEN 1 ELSE 0]

DZero == [kind |-> "zero", sign |-> 0, exp |-> 0, mant |-> <<>>]

DNaN == [kind |-> "nan", sign |-> 0, exp |-> 0, mant |-> <<>>]

DInf(s) == [kind |-> "inf", sign |-> s, exp |-> 0, mant |-> <<>>]

\* Round the binary expansion `bits` (leading digit 1, value bits * 2^exp with the
\* point after the first digit; `sticky` = nonzero digits follow) to a double.
RoundNearestEven(s, bits, sticky, exp) ==
    LET padded == IF Len(bits) < MantissaBits
                  THEN bits \o Zeros(MantissaBits - Len(bits)) ELSE bits
        mant   == SubSeq(padded, 1, MantissaBits)
        guard  == IF Len(padded) > MantissaBits THEN padded[MantissaBits + 1] ELSE 0
        rest   == sticky \/ \E i \in (MantissaBits + 2)..Len(padded) : padded[i] = 1
        up     == guard = 1 /\ (rest \/ mant[MantissaBits] = 1)
    IN  IF ~up
        THEN [kind |-> "finite", sign |-> s, exp |-> exp, mant |-> mant]
        ELSE IF \A i \in 1..MantissaBits : mant[i] = 1
        THEN [kind |-> "finite", sign |-> s, exp |-> exp + 1,
              mant |-> <<1>> \o Zeros(MantissaBits - 1)]
        ELSE [kind |-> "finite", sign |-> s, exp |-> exp, mant |-> Increment(mant)]

\* Number(k) for an integer k: exact.
ToDouble(k) ==
    IF k = 0 THEN DZero
    ELSE LET bits == NatBits(Abs(k))
         IN  RoundNearestEven(Sign(k), bits, FALSE, Len(bits) - 1)

\* a / b in JavaScript for integer-valued a and b.
FDivRounded(a, b) ==
    LET s     == ScaleUp(Abs(a), Abs(b))
        A     == Abs(a) * Pow2(s)
        ibits == NatBits(A \div Abs(b))
        n     == MantissaBits + 1 - Len(ibits)
        bits  == ibits \o FracBits(A % Abs(b), Abs(b), n)
    IN  RoundNearestEven(Sign(a) * Sign(b), bits,
                         FracRem(A % Abs(b), Abs(b), n) # 0, Len(ibits) - 1 - s)

FDiv(a, b) ==
    IF b = 0 THEN (IF a = 0 THEN DNaN ELSE DInf(Sign(a)))
    ELSE IF a = 0 THEN DZero
    ELSE FDivRounded(a, b)

\* The value of a digit string, and the w-digit string of a value below 2^w.
RECURSIVE BitsToNat(_)
BitsToNat(bits) ==
    IF bits = <<>> THEN 0
    ELSE 2 * BitsToNat(SubSeq(bits, 1, Len(bits) - 1)) + bits[Len(bits)]

FixedBits(v, w) == [i \in 1..w |-> (v \div Pow2(w - i)) % 2]

\* The digits of (significand m) * n + carry for a natural n >= 1, most significant
\* first: schoolbook multiplication, 16 binary digits at a time from the right.
RECURSIVE MulBits(_, _, _)
MulBits(m, n, carry) ==
    IF m = <<>> THEN NatBits(carry)
    ELSE LET k == IF Len(m) < 16 THEN Len(m) ELSE 16
             t == BitsToNat(SubSeq(m, Len(m) - k + 1, Len(m))) * n + carry
         IN  MulBits(SubSeq(m, 1, Len(m) - k), n, t \div Pow2(k))
                 \o FixedBits(t % Pow2(k), k)

\* d * n in JavaScript for a double d and an integer n.
FMul(d, n) ==
    IF d.kind = "nan" THEN DNaN
    ELSE IF d.kind = "inf" THEN (IF n = 0 THEN DNaN ELSE DInf(d.sign * Sign(n)))
    ELSE IF d.kind = "zero" \/ n = 0 THEN DZero
    ELSE LET prod == MulBits(d.mant, Abs(n), 0)
         IN  RoundNearestEven(d.sign * Sign(n), prod, FALSE,
                              d.exp + Len(prod) - MantissaBits)

(***************************************************************************)
(* PortfolioService.getQuartersSummary: the grouping reduction.            *)
(***************************************************************************)
MaxRows == 7

\* The rows a query may return: (quarter, weight, quarterly_returns) triples.
SampleRows ==
    { [quarter |-> "Q2 2024", weight |-> 10, quarterly_returns |-> 4],
      [quarter |-> "Q2 2024", weight |-> 25, quarterly_returns |-> 5],
      [quarter |-> "Q1 2024", weight |-> 15, quarterly_returns |-> -3] }

RECURSIVE SeqsUpTo(_, _)
SeqsUpTo(S, n) ==
    IF n = 0 THEN {<<>>}
    ELSE LET shorter == SeqsUpTo(S, n - 1)
         IN  shorter \cup {Append(q, x) : q \in {p \in shorter : Len(p) = n - 1}, x \in S}

\* A JavaScript Map, in insertion order: a sequence of [key, value] entries.
MapHas(m, k) == \E i \in 1..Len(m) : m[i].key = k

MapGet(m, k) == m[CHOOSE i \in 1..Len(m) : m[i].key = k].value

MapSetAlwaysAppend(m, k, v) == Append(m, [key |-> k, value |-> v])

MapSet(m, k, v) ==
    IF MapHas(m, k)
    THEN [i \in 1..Len(m) |-> IF m[i].key = k THEN [key |-> k, value |-> v] ELSE m[i]]
    ELSE Append(m, [key |-> k, value |-> v])

EmptySummary == [total_stocks |-> 0, total_returns |-> 0, total_weight |-> 0]

\* One step of data.forEach: quarterMap.set(item.quarter, existing + item).
AddItem(quarterMap, item) ==
    LET existing == IF MapHas(quarterMap, item.quarter)
                    THEN MapGet(quarterMap, item.quarter) ELSE EmptySummary
    IN  MapSet(quarterMap, item.quarter,
               [total_stocks  |-> existing.total_stocks + 1,
                total_returns |-> existing.total_returns + item.quarterly_returns,
                total_weight  |-> existing.total_weight + item.weight])

RECURSIVE GroupByQuarter(_)
GroupByQuarter(data) ==
    IF data = <<>> THEN <<>>
    ELSE AddItem(GroupByQuarter(SubSeq(data, 1, Len(data) - 1)), data[Len(data)])

SummaryOfOffByOne(entry) ==
    [quarter      |-> entry.key,
     total_stocks |-> entry.value.total_stocks,
     avg_returns  |-> FDiv(entry.value.total_returns, entry.value.total_stocks - 1),
     total_weight |-> entry.value.total_weight]

\* Array.from(quarterMap.entries()).map(([quarter, summary]) => ...)
SummaryOf(entry) ==
    [quarter      |-> entry.key,
     total_stocks |-> entry.value.total_stocks,
     avg_returns  |-> FDiv(entry.value.total_returns, entry.value.total_stocks),
     total_weight |-> entry.value.total_weight]

QuartersSummary(data) ==
    IF Len(data) = 0 THEN <<>>
    ELSE LET quarterMap == GroupByQuarter(data)
         IN  [i \in 1..Len(quarterMap) |-> SummaryOf(quarterMap[i])]

AggInit ==
    /\ rows \in SeqsUpTo(SampleRows, MaxRows)
    /\ summaries = <<>>
    /\ aggPc = "input"

\* A successful getQuartersSummary() over the fetched rows.
GetQuartersSummary ==
    /\ aggPc = "input"
    /\ summaries' = QuartersSummary(rows)
    /\ aggPc' = "done"
    /\ UNCHANGED rows
    /\ UNCHANGED nonAggVars

AggIdle == rows = <<>> /\ summaries = <<>> /\ aggPc = "input"

(***************************************************************************)
(* SessionManager: storeLocation / getStoredLocation / clearStoredLocation *)
(* over one localStorage item.  The manager runs in the browser, so the    *)
(* `typeof window === 'undefined'` early returns are never taken.          *)
(***************************************************************************)
SESSION_TIMEOUT == 24 * 60 * 60 * 1000

MaxTicks == 4

\* The amounts by which the clock is seen to advance between two operations.
TickSteps == {1, SESSION_TIMEOUT - 1}

Paths == {"/", "/login", "/signup", "/auth/callback", "/auth/reset", "/momentum", "/backtest"}

Null == "null"

NoItem == <<>>

\* path.startsWith('/auth/') on the paths of the model.
StartsWithAuth(path) == path \in {"/auth/callback", "/auth/reset"}

excludedPaths == {"/auth/callback", "/", "/login", "/signup"}

ShouldStorePath(path) == path \notin excludedPaths /\ ~StartsWithAuth(path)

\* JSON.stringify({lastLocation, timestamp}) and JSON.parse of it: the text is
\* modelled as the flat list of its keys and values.
JsonStringify(state) == <<"lastLocation", state.lastLocation, "timestamp", state.timestamp>>

JsonParse(text) == [lastLocation |-> text[2], timestamp |-> text[4]]

IsExpiredFromThreshold(timestamp) == now - timestamp >= SESSION_TIMEOUT

\* Date.now() - sessionState.timestamp > this.SESSION_TIMEOUT
IsExpired(timestamp) == now - timestamp > SESSION_TIMEOUT

NoGet == [called |-> FALSE, age |-> 0, stored |-> Null, result |-> Null]

SessInit ==
    /\ now = 0
    /\ locationItem = NoItem
    /\ lastGet = NoGet
    /\ ticks = 0

SessIdle == SessInit

StoreLocation(path) ==
    /\ locationItem' =
           IF path = "/auth/callback" \/ path = "/"
           THEN locationItem
           ELSE JsonStringify([lastLocation |-> path, timestamp |-> now])
    /\ UNCHANGED <<now, lastGet, ticks, nonSessVars>>

ClearStoredLocation ==
    /\ locationItem' = NoItem
    /\ UNCHANGED <<now, lastGet, ticks, nonSessVars>>

GetStoredLocation ==
    /\ IF locationItem = NoItem
       THEN /\ lastGet' = [called |-> TRUE, age |-> 0, stored |-> Null, result |-> Null]
            /\ UNCHANGED locationItem
       ELSE LET sessionState == JsonParse(locationItem)
            IN  IF IsExpired(sessionState.timestamp)
                THEN /\ locationItem' = NoItem
                     /\ lastGet' = [called |-> TRUE, age |-> now - sessionState.timestamp,
                                    stored |-> sessionState.lastLocation, result |-> Null]
                ELSE /\ UNCHANGED locationItem
                     /\ lastGet' = [called |-> TRUE, age |-> now - sessionState.timestamp,
                                    stored |-> sessionState.lastLocation,
                                    result |-> sessionState.lastLocation]
    /\ UNCHANGED <<now, ticks, nonSessVars>>

\* Time passes between two operations.
Tick(d) ==
    /\ ticks < MaxTicks
    /\ ticks' = ticks + 1
    /\ now' = now + d
    /\ UNCHANGED <<locationItem, lastGet, nonSessVars>>

(***************************************************************************)
(* The backend table and PortfolioService.getPortfolioByQuarter.           *)
(* A call is a chain of awaits: auth.getSession(), the query, and, after a *)
(* retryable error, the backoff timer followed by the recursive call.      *)
(* Calls are numbered in the order they start.                             *)
(***************************************************************************)
maxRetries == 3

retryDelay == 1000

MaxCalls == 2

\* attempts are counted up to MaxAttempts (more than a call left alone can make)
MaxAttempts == 5

CallIds == 1..MaxCalls

QuarterLabels == {"Q1 2024", "Q2 2024"}

\* The rows that may exist: id -> (quarter, weight).
RowIds == 1..3

RowQuarter(id) == IF id = 3 THEN "Q2 2024" ELSE "Q1 2024"

RowWeight(id) == IF id = 1 THEN 20 ELSE IF id = 2 THEN 30 ELSE 50

\* .order('weight', {ascending: false}) over a set of rows.
RECURSIVE OrderByWeightDesc(_)
OrderByWeightDesc(ids) ==
    IF ids = {} THEN <<>>
    ELSE LET top == CHOOSE i \in ids : \A j \in ids : RowWeight(j) <= RowWeight(i)
         IN  <<top>> \o OrderByWeightDesc(ids \ {top})

\* select('*').eq('quarter', quarter).order('weight', {ascending: false})
RowsOfTable(t, quarter) == OrderByWeightDesc({id \in t : RowQuarter(id) = quarter})

Table == tableLog[Len(tableLog)]

SelectAllRows(quarter) == OrderByWeightDesc(Table)

SelectQuarter(quarter) == RowsOfTable(Table, quarter)

\* error.message texts, as character sequences.
MsgConnection == <<"c","o","n","n","e","c","t","i","o","n"," ","l","o","s","t">>

MsgNetwork == <<"n","e","t","w","o","r","k"," ","d","o","w","n">>

MsgFetch == <<"F","a","i","l","e","d"," ","t","o"," ","f","e","t","c","h">>

ErrorMessages == {MsgConnection, MsgNetwork, MsgFetch}

\* String.prototype.includes
Includes(text, needle) ==
    \E i \in 1..(Len(text) - Len(needle) + 1) :
        SubSeq(text, i, i + Len(needle) - 1) = needle

LooksLikeNetworkError(message) ==
    \/ Includes(message, <<"c","o","n","n","e","c","t","i","o","n">>)
    \/ Includes(message, <<"n","e","t","w","o","r","k">>)

MayRetryOneMore(message) ==
    connectionRetries <= maxRetries /\ LooksLikeNetworkError(message)

MayRetryAnyError(message) == connectionRetries < maxRetries

MayRetryUnbounded(message) == LooksLikeNetworkError(message)

\* this.connectionRetries < this.maxRetries && (error.message.includes('connection')
\*                                            || error.message.includes('network'))
MayRetry(message) ==
    connectionRetries < maxRetries /\ LooksLikeNetworkError(message)

\* asOf: the number of committed table changes the answer reflects.
NoResponse == [ok |-> TRUE, data |-> <<>>, message |-> <<>>, asOf |-> 0]

\* Who awaits a call: application code, or the postgres_changes handler of a channel.
Caller == [kind |-> "caller", id |-> 0]

Handler(ch) == [kind |-> "handler", id |-> ch]

\* attempts: queries issued by the call so far; resp: the backend's answer to the
\* latest query and, once the call is over, what it returned or threw;
\* disturbed: another call's success has reset connectionRetries meanwhile;
\* wait: the delay of the call's latest backoff timer, 0 before the first one;
\* fresh: the call was entered with no other call in flight, after a success.
IdleCall ==
    [pc |-> "idle", quarter |-> "", attempts |-> 0, owner |-> Caller,
     resp |-> NoResponse, disturbed |-> FALSE, wait |-> 0, fresh |-> FALSE]

\* this.retryDelay * this.connectionRetries, read right after the increment
BackoffWait(retries) == retryDelay * retries

RetriesLeftAsIs == connectionRetries

\* this.connectionRetries = 0; // Reset on success
RetriesAfterSuccess == 0

\* the budget is given back when the call gives up
RetriesClearedByThrow == connectionRetries * 0

\* throw error; the counter is not touched
RetriesAfterThrow == connectionRetries

InFlight(c) == calls[c].pc \in {"session", "query", "answered", "backoff"}

SvcInit ==
    /\ tableLog = <<RowIds>>
    /\ connectionRetries = 0
    /\ calls = [c \in CallIds |-> IdleCall]
    /\ lastSettled = "none"

SvcIdle == SvcInit

EnteredFresh(cs) ==
    /\ (IF cs = calls THEN lastSettled ELSE "returned") = "returned"
    /\ \A d \in CallIds : cs[d].pc \notin {"session", "query", "answered", "backoff"}

\* getPortfolioByQuarter(quarter) is entered: it awaits supabase.auth.getSession().
StartCall(c, quarter, owner) ==
    /\ calls[c].pc = "idle"
    /\ \A d \in CallIds : d < c => calls[d].pc # "idle"
    /\ calls' = [calls EXCEPT ![c] = [IdleCall EXCEPT !.pc = "session",
                                                      !.quarter = quarter,
                                                      !.owner = owner,
                                                      !.fresh = EnteredFresh(calls)]]

\* getSession() resolved (with or without a session): the query is issued.
SessionResolved(c) ==
    /\ calls[c].pc = "session"
    /\ calls' = [calls EXCEPT ![c].pc = "query",
                              ![c].attempts = IF @ < MaxAttempts THEN @ + 1 ELSE @]
    /\ UNCHANGED <<tableLog, connectionRetries, lastSettled>>
    /\ UNCHANGED <<chanVars, outerVars>>

\* The backend answers the query with the quarter's rows as they are now.
BackendAnswers(c) ==
    /\ calls[c].pc = "query"
    /\ calls' = [calls EXCEPT ![c].pc = "answered",
                              ![c].resp = [ok |-> TRUE,
                                           data |-> SelectQuarter(calls[c].quarter),
                                           message |-> <<>>,
                                           asOf |-> Len(tableLog) - 1]]
    /\ UNCHANGED <<tableLog, connectionRetries, lastSettled>>
    /\ UNCHANGED <<chanVars, outerVars>>

\* The request fails: { data: null, error: { message } }.
BackendFails(c, message) ==
    /\ calls[c].pc = "query"
    /\ calls' = [calls EXCEPT ![c].pc = "answered",
                              ![c].resp = [ok |-> FALSE, data |-> <<>>,
                                           message |-> message, asOf |-> 0]]
    /\ UNCHANGED <<tableLog, connectionRetries, lastSettled>>
    /\ UNCHANGED <<chanVars, outerVars>>

(***************************************************************************)
(* PortfolioService.subscribeToUpdates: the subscriber set and the single  *)
(* real-time channel.  A channel keeps the `quarter` of the call that      *)
(* created it (the handler closes over it).  Every committed table change  *)
(* queues one postgres_changes event on every open channel.                *)
(***************************************************************************)
MaxChannels == 2

MaxSubscribers == 2

MaxChanges == 2

MaxChannelErrors == 1

ChannelIds == 1..MaxChannels

Callbacks == 1..MaxSubscribers

\* A callback is a closure a component makes for one quarter, the quarter it
\* passes along with it to subscribeToUpdates.
QuarterOf(callback) == IF callback % 2 = 1 THEN "Q1 2024" ELSE "Q2 2024"

NoChannel == 0

UnusedChannel == [state |-> "unused", quarter |-> "", pending |-> 0]

NoSnapshot == [got |-> FALSE, quarter |-> "", data |-> <<>>, asOf |-> 0]

ChanInit ==
    /\ realtimeChannel = NoChannel
    /\ subscribers = {}
    /\ channels = [ch \in ChannelIds |-> UnusedChannel]
    /\ reconnectTimers = <<>>
    /\ channelErrors = 0
    /\ handles = {}
    /\ lastSeen = [cb \in Callbacks |-> NoSnapshot]
    /\ notified = [cb \in Callbacks |-> 0]

ChanIdle == ChanInit

\* The service's subscription state, and what subscribeToUpdates and the
\* unsubscribe function it returns make of it.
Subscription == [subscribers |-> subscribers, realtimeChannel |-> realtimeChannel,
                 channels |-> channels]

FreeChannel(S) ==
    CHOOSE ch \in ChannelIds :
        /\ S.channels[ch].state = "unused"
        /\ \A d \in ChannelIds : d < ch => S.channels[d].state # "unused"

CanSubscribe(S) ==
    S.realtimeChannel # NoChannel \/ \E ch \in ChannelIds : S.channels[ch].state = "unused"

\* this.subscribers.add(callback); if (!this.realtimeChannel) { create and subscribe }
AfterSubscribe(S, callback, quarter) ==
    IF S.realtimeChannel = NoChannel
    THEN [subscribers     |-> S.subscribers \cup {callback},
          realtimeChannel |-> FreeChannel(S),
          channels        |-> [S.channels EXCEPT ![FreeChannel(S)] =
                                  [state |-> "open", quarter |-> quarter, pending |-> 0]]]
    ELSE [S EXCEPT !.subscribers = @ \cup {callback}]

AfterUnsubscribeKeepChannel(S, callback) == [S EXCEPT !.subscribers = @ \ {callback}]

\* this.subscribers.delete(callback); if (size === 0 && this.realtimeChannel) { close }
AfterUnsubscribe(S, callback) ==
    IF S.subscribers \ {callback} = {} /\ S.realtimeChannel # NoChannel
    THEN [subscribers     |-> {},
          realtimeChannel |-> NoChannel,
          channels        |-> [S.channels EXCEPT ![S.realtimeChannel] =
                                  [@ EXCEPT !.state = "closed", !.pending = 0]]]
    ELSE [S EXCEPT !.subscribers = @ \ {callback}]

SetSubscription(S) ==
    /\ subscribers' = S.subscribers
    /\ realtimeChannel' = S.realtimeChannel
    /\ channels' = S.channels

\* A component calls portfolioService.subscribeToUpdates(callback, quarter).
Subscribe(callback, quarter) ==
    /\ CanSubscribe(Subscription)
    /\ SetSubscription(AfterSubscribe(Subscription, callback, quarter))
    /\ handles' = handles \cup {callback}
    /\ UNCHANGED <<reconnectTimers, channelErrors, lastSeen, notified>>
    /\ UNCHANGED <<svcVars, outerVars>>

\* A component calls an unsubscribe function it was given (maybe once more).
Unsubscribe(callback) ==
    /\ callback \in handles
    /\ SetSubscription(AfterUnsubscribe(Subscription, callback))
    /\ UNCHANGED <<reconnectTimers, channelErrors, handles, lastSeen, notified>>
    /\ UNCHANGED <<svcVars, outerVars>>

\* Some client commits an insert or a delete on portfolio_constituents.
TableChanges(id) ==
    /\ Len(tableLog) <= MaxChanges
    /\ tableLog' = Append(tableLog, IF id \in Table THEN Table \ {id} ELSE Table \cup {id})
    /\ channels' = [ch \in ChannelIds |->
                       IF channels[ch].state = "open"
                       THEN [channels[ch] EXCEPT !.pending = @ + 1]
                       ELSE channels[ch]]
    /\ UNCHANGED <<connectionRetries, calls, lastSettled>>
    /\ UNCHANGED <<realtimeChannel, subscribers, reconnectTimers, channelErrors,
                   handles, lastSeen, notified>>
    /\ UNCHANGED outerVars

\* A postgres_changes event reaches the handler of channel ch, which starts
\* `await this.getPortfolioByQuarter(quarter)` with the quarter it closed over.
EventArrives(ch, c) ==
    /\ channels[ch].state = "open"
    /\ channels[ch].pending > 0
    /\ channels' = [channels EXCEPT ![ch].pending = @ - 1]
    /\ StartCall(c, channels[ch].quarter, Handler(ch))
    /\ UNCHANGED <<tableLog, connectionRetries, lastSettled>>
    /\ UNCHANGED <<realtimeChannel, subscribers, reconnectTimers, channelErrors,
                   handles, lastSeen, notified>>
    /\ UNCHANGED outerVars

\* The channel's status callback is called with CHANNEL_ERROR: a timer is set.
ChannelError(ch) ==
    /\ channels[ch].state = "open"
    /\ channelErrors < MaxChannelErrors
    /\ channelErrors' = channelErrors + 1
    /\ reconnectTimers' = Append(reconnectTimers, ch)
    /\ UNCHANGED <<realtimeChannel, subscribers, channels, handles, lastSeen, notified>>
    /\ UNCHANGED <<svcVars, outerVars>>

\* The channel the timer's callback closes.
ErroredChannel == Head(reconnectTimers)

ChannelLeftOpen == IF realtimeChannel = NoChannel THEN realtimeChannel ELSE NoChannel

\* this.realtimeChannel?.unsubscribe(): the channel the field holds by then
ChannelToClose == realtimeChannel

\* 5000 ms later: this.realtimeChannel?.unsubscribe(); this.realtimeChannel = null.
ReconnectTimerFires ==
    /\ reconnectTimers # <<>>
    /\ reconnectTimers' = Tail(reconnectTimers)
    /\ realtimeChannel' = NoChannel
    /\ channels' = IF ChannelToClose = NoChannel THEN channels
                   ELSE [channels EXCEPT ![ChannelToClose] =
                            [@ EXCEPT !.state = "closed", !.pending = 0]]
    /\ UNCHANGED <<subscribers, channelErrors, handles, lastSeen, notified>>
    /\ UNCHANGED <<svcVars, outerVars>>

SnapshotOf(c) ==
    [got |-> TRUE, quarter |-> calls[c].quarter, data |-> calls[c].resp.data,
     asOf |-> calls[c].resp.asOf]

\* A callback that throws when it is called.
Throws(callback) == callback = 1

InvokedUntilThrow(S) == {cb \in S : \A d \in S : d < cb => ~Throws(d)}

InvokedEverRegistered(S) == S \cup handles

\* The callbacks a forEach over S calls: try { subscriber(updatedData) } catch
\* (error) { console.error(...) } goes on to the next one after a throw.
Invoked(S) == S

\* this.subscribers.forEach(subscriber => subscriber(updatedData))
Broadcast(c) ==
    /\ lastSeen' = [cb \in Callbacks |->
                       IF cb \in Invoked(subscribers) THEN SnapshotOf(c) ELSE lastSeen[cb]]
    /\ notified' = [cb \in Callbacks |->
                       IF cb \in Invoked(subscribers) THEN notified[cb] + 1
                       ELSE notified[cb]]

HandlerNotifiesEmpty(c) ==
    /\ lastSeen' = [cb \in Callbacks |->
                       IF cb \in subscribers THEN [SnapshotOf(c) EXCEPT !.data = <<>>]
                       ELSE lastSeen[cb]]
    /\ notified' = [cb \in Callbacks |->
                       IF cb \in subscribers THEN notified[cb] + 1 ELSE notified[cb]]
    /\ UNCHANGED <<realtimeChannel, subscribers, channels, reconnectTimers,
                   channelErrors, handles>>

\* catch (error) { console.error('Error fetching updated data:', error) } of the
\* postgres_changes handler.
HandlerCatches(c) == UNCHANGED chanVars

\* Invocations of the service's one-request operations (getQuartersSummary among
\* them, which the hook's loadQuarters awaits).
MaxOps == 2

OpIds == 1..MaxOps

Reads == {"getQuartersSummary", "getLatestPortfolio", "searchConstituents"}

Writes == {"addConstituent", "updateConstituent", "deleteConstituent",
           "bulkInsertConstituents"}

OpArgs(kind) ==
    IF kind \in {"getQuartersSummary", "getLatestPortfolio"} THEN {{}}
    ELSE IF kind = "searchConstituents" THEN {{1, 3}}
    ELSE IF kind = "bulkInsertConstituents" THEN {{1, 2}, {3}}
    ELSE {{r} : r \in RowIds}

NoOpResponse == [ok |-> TRUE, data |-> <<>>, message |-> <<>>]

Latest(o) == [kind |-> "latest", id |-> o]

\* requests: what the operation itself asked of the backend so far; call: the
\* getPortfolioByQuarter call getLatestPortfolio returns; rethrown: the hook threw
\* the error on to its own caller; seen: the selectedQuarter of the render whose
\* loadQuarters awaits the operation.
IdleOp ==
    [kind |-> "", pc |-> "idle", requests |-> 0, resp |-> NoOpResponse,
     owner |-> "caller", arg |-> {}, call |-> 0, rethrown |-> FALSE, seen |-> Null]

OpsInit == ops = [o \in OpIds |-> IdleOp]

OpsIdle == OpsInit

(***************************************************************************)
(* The usePortfolioData hook: its state, the effects that depend on        *)
(* selectedQuarter, user and isInitialized, and what it does when a load   *)
(* or a real-time notification delivers rows.  A step of the hook is a     *)
(* state update followed by the effects whose dependencies changed.        *)
(***************************************************************************)
Load == [kind |-> "load", id |-> 0]

\* The callback the subscription effect passes to subscribeToUpdates.  The effect
\* unsubscribes the previous one before it subscribes a new one, so the subscriber
\* set holds at most one of them.
HookCallback == 0

NoError == [set |-> FALSE, message |-> <<>>]

FailedToLoad ==
    <<"F","a","i","l","e","d"," ","t","o"," ","l","o","a","d"," ",
      "p","o","r","t","f","o","l","i","o"," ","d","a","t","a">>

HookInit ==
    /\ selectedQuarter \in {Null} \cup QuarterLabels
    /\ quarters = <<>>
    /\ portfolioData = <<>>
    /\ loading = TRUE
    /\ error = NoError
    /\ user = FALSE
    /\ isInitialized = FALSE
    /\ hookSub = FALSE

HookIdle ==
    /\ selectedQuarter = Null
    /\ quarters = <<>>
    /\ portfolioData = <<>>
    /\ loading = TRUE
    /\ error = NoError
    /\ user = FALSE
    /\ isInitialized = FALSE
    /\ hookSub = FALSE

\* The values the effects depend on.
HookDeps ==
    [selectedQuarter |-> selectedQuarter, user |-> user,
     isInitialized |-> isInitialized, length |-> Len(portfolioData)]

\* useEffect(() => { if (user && isInitialized && portfolioData.length === 0)
\*   forceRefresh() }, [user, isInitialized, portfolioData.length, forceRefresh])
RunsForceRefresh(old, new) ==
    /\ old # new
    /\ new.user /\ new.isInitialized /\ new.length = 0

\* useEffect(() => { if (selectedQuarter && isInitialized) loadPortfolioData() },
\*   [selectedQuarter, isInitialized, loadPortfolioData])
RunsLoadEffect(old, new) ==
    /\ old.selectedQuarter # new.selectedQuarter \/ old.isInitialized # new.isInitialized
    /\ new.selectedQuarter # Null /\ new.isInitialized

\* the subscription effect's dependencies: [selectedQuarter, user]
RunsSubscriptionEffect(old, new) ==
    old.selectedQuarter # new.selectedQuarter \/ old.user # new.user

\* useEffect(() => { if (isInitialized) loadQuarters() }, [isInitialized, loadQuarters]);
\* loadQuarters is useCallback(..., [selectedQuarter])
RunsQuartersEffect(old, new) ==
    /\ old.isInitialized # new.isInitialized \/ old.selectedQuarter # new.selectedQuarter
    /\ new.isInitialized

\* loadQuarters() calls made by the effects: the initial-load effect's, and the one
\* of forceRefresh's refreshData.
QuarterLoadsStarted(old, new) ==
    (IF RunsQuartersEffect(old, new) THEN 1 ELSE 0)
      + (IF RunsForceRefresh(old, new) THEN 1 ELSE 0)

FreeOps(os) == Cardinality({o \in OpIds : os[o].pc = "idle"})

\* n more loadQuarters() entered, up to `await portfolioService.getQuartersSummary()`,
\* by a render that had selectedQuarter = seen.
StartedQuarterLoads(os, n, seen) ==
    [o \in OpIds |->
        IF os[o].pc = "idle" /\ Cardinality({p \in OpIds : p < o /\ os[p].pc = "idle"}) < n
        THEN [IdleOp EXCEPT !.kind = "getQuartersSummary", !.pc = "request",
                            !.requests = 1, !.owner = "loadQuarters", !.seen = seen]
        ELSE os[o]]

EffectsLoadQuarters(old, new, os) ==
    /\ FreeOps(os) >= QuarterLoadsStarted(old, new)
    /\ ops' = StartedQuarterLoads(os, QuarterLoadsStarted(old, new), new.selectedQuarter)

\* loadPortfolioData() calls made by the effects (it returns at once without a
\* selected quarter).
LoadsStarted(old, new) ==
    (IF RunsForceRefresh(old, new) /\ new.selectedQuarter # Null THEN 1 ELSE 0)
      + (IF RunsLoadEffect(old, new) THEN 1 ELSE 0)

FreeCalls(cs) == Cardinality({c \in CallIds : cs[c].pc = "idle"})

\* n more getPortfolioByQuarter(quarter) calls entered on behalf of owner.
Started(cs, n, quarter, owner) ==
    [c \in CallIds |->
        IF cs[c].pc = "idle" /\ Cardinality({d \in CallIds : d < c /\ cs[d].pc = "idle"}) < n
        THEN [IdleCall EXCEPT !.pc = "session", !.quarter = quarter, !.owner = owner,
                              !.fresh = EnteredFresh(cs) /\ n = 1]
        ELSE cs[c]]

\* The effects that run after the dependencies went from old to new, cs being the
\* service's calls at that point: loads are started, setLoading(true) and
\* setError(null) are applied.
EffectsStartLoads(old, new, cs, loadingNow, errorNow) ==
    /\ FreeCalls(cs) >= LoadsStarted(old, new)
    /\ calls' = Started(cs, LoadsStarted(old, new), new.selectedQuarter, Load)
    /\ loading' = (IF RunsForceRefresh(old, new) \/ RunsLoadEffect(old, new)
                   THEN TRUE ELSE loadingNow)
    /\ error' = (IF RunsForceRefresh(old, new) \/ RunsLoadEffect(old, new)
                 THEN NoError ELSE errorNow)

\* The subscription effect: the previous effect's cleanup, then the new subscribe.
EffectsSubscribe(old, new) ==
    IF RunsSubscriptionEffect(old, new)
    THEN LET cleaned == IF hookSub THEN AfterUnsubscribe(Subscription, HookCallback)
                        ELSE Subscription
             wanted  == new.selectedQuarter # Null /\ new.user
         IN  /\ wanted => CanSubscribe(cleaned)
             /\ SetSubscription(IF wanted
                                THEN AfterSubscribe(cleaned, HookCallback, new.selectedQuarter)
                                ELSE cleaned)
             /\ hookSub' = wanted
    ELSE UNCHANGED <<subscribers, realtimeChannel, channels, hookSub>>

\* selectedQuarter, user or isInitialized change and the hook renders again.
HookRenders(new) ==
    /\ new # HookDeps
    /\ selectedQuarter' = new.selectedQuarter
    /\ user' = new.user
    /\ isInitialized' = new.isInitialized
    /\ EffectsStartLoads(HookDeps, new, calls, loading, error)
    /\ EffectsLoadQuarters(HookDeps, new, ops)
    /\ EffectsSubscribe(HookDeps, new)
    /\ UNCHANGED <<portfolioData, quarters>>
    /\ UNCHANGED <<tableLog, connectionRetries, lastSettled>>
    /\ UNCHANGED <<reconnectTimers, channelErrors, handles, lastSeen, notified>>
    /\ UNCHANGED <<aggVars, sessVars, authVars>>

\* setSelectedQuarter(quarter) of the hook's result, i.e. handleQuarterChange.
HandleQuarterChange(quarter) ==
    /\ quarter # selectedQuarter
    /\ HookRenders([HookDeps EXCEPT !.selectedQuarter = quarter])

\* useAuth() reports isInitialized.
AuthInitialized ==
    /\ ~isInitialized
    /\ HookRenders([HookDeps EXCEPT !.isInitialized = TRUE])

\* useAuth() reports a user.
SignedIn ==
    /\ ~user
    /\ HookRenders([HookDeps EXCEPT !.user = TRUE])

\* useAuth() reports no user any more.
SignedOut ==
    /\ user
    /\ HookRenders([HookDeps EXCEPT !.user = FALSE])

AppendPortfolioData(data) == portfolioData \o data

\* setPortfolioData(data)
SetPortfolioData(data) == data

\* Rows reach the hook, from its load (fromLoad) or from its subscription
\* callback, cs being the calls once the delivering call has returned.
HookReceives(data, fromLoad, cs) ==
    /\ portfolioData' = SetPortfolioData(data)
    /\ EffectsStartLoads(HookDeps, [HookDeps EXCEPT !.length = Len(SetPortfolioData(data))],
                         cs,
                         IF fromLoad THEN FALSE ELSE loading,
                         IF fromLoad THEN error ELSE NoError)
    /\ EffectsLoadQuarters(HookDeps, [HookDeps EXCEPT !.length = Len(SetPortfolioData(data))],
                           ops)
    /\ UNCHANGED <<selectedQuarter, quarters, user, isInitialized, hookSub>>

\* catch (err) { setError(...) } finally { setLoading(false) } of loadPortfolioData.
\* Whether the thrown value is an Error instance depends on the vendor library.
HookLoadFailed(message) ==
    /\ error' \in {[set |-> TRUE, message |-> message],
                   [set |-> TRUE, message |-> FailedToLoad]}
    /\ loading' = FALSE
    /\ UNCHANGED <<selectedQuarter, quarters, portfolioData, user, isInitialized, hookSub>>

HookGets(c) ==
    \/ calls[c].owner.kind = "load"
    \/ calls[c].owner.kind = "handler" /\ HookCallback \in subscribers

\* The awaited query settles with an error and the call goes on: it either
\* schedules a retry or throws to the code awaiting it.
ReceiveError(c) ==
    /\ calls[c].pc = "answered"
    /\ ~calls[c].resp.ok
    /\ IF MayRetry(calls[c].resp.message)
       THEN /\ connectionRetries' = connectionRetries + 1
            /\ calls' = [calls EXCEPT ![c].pc = "backoff", ![c].resp = NoResponse,
                                      ![c].wait = BackoffWait(connectionRetries + 1)]
            /\ UNCHANGED lastSettled
            /\ UNCHANGED hookVars
       ELSE /\ connectionRetries' = RetriesAfterThrow
            /\ calls' = [calls EXCEPT ![c].pc = "thrown"]
            /\ lastSettled' = "thrown"
            /\ IF calls[c].owner.kind = "load"
               THEN HookLoadFailed(calls[c].resp.message)
               ELSE UNCHANGED hookVars
    /\ IF calls[c].owner.kind = "handler" /\ ~MayRetry(calls[c].resp.message)
       THEN HandlerCatches(c)
       ELSE UNCHANGED chanVars
    /\ UNCHANGED tableLog
    /\ UNCHANGED otherVars

\* The calls once call c has reset the counter and returned.
Returned(c) ==
    [d \in CallIds |->
        IF d = c THEN [calls[c] EXCEPT !.pc = "returned"]
        ELSE IF InFlight(d) THEN [calls[d] EXCEPT !.disturbed = TRUE]
        ELSE calls[d]]

\* The awaited query settles with data: the counter is reset, the call returns
\* and the code awaiting it runs (the handler broadcasts, the hook stores the rows).
ReceiveData(c) ==
    /\ calls[c].pc = "answered"
    /\ calls[c].resp.ok
    /\ connectionRetries' = RetriesAfterSuccess
    /\ lastSettled' = "returned"
    /\ IF calls[c].owner.kind = "handler" THEN Broadcast(c)
       ELSE UNCHANGED <<lastSeen, notified>>
    /\ IF HookGets(c)
       THEN HookReceives(calls[c].resp.data, calls[c].owner.kind = "load", Returned(c))
       ELSE /\ calls' = Returned(c)
            /\ UNCHANGED <<hookVars, ops>>
    /\ UNCHANGED tableLog
    /\ UNCHANGED <<realtimeChannel, subscribers, channels, reconnectTimers,
                   channelErrors, handles>>
    /\ UNCHANGED <<aggVars, sessVars, authVars>>

\* setTimeout(resolve, retryDelay * connectionRetries) fired: the recursive
\* getPortfolioByQuarter(quarter) starts with its own getSession().
BackoffElapsed(c) ==
    /\ calls[c].pc = "backoff"
    /\ calls' = [calls EXCEPT ![c].pc = "session"]
    /\ UNCHANGED <<tableLog, connectionRetries, lastSettled>>
    /\ UNCHANGED <<chanVars, outerVars>>

\* The promise of a call that returned or threw is dropped by the code that
\* awaited it; its slot serves a later call.
Forget(c) ==
    /\ calls[c].pc \in {"returned", "thrown"}
    /\ calls' = [calls EXCEPT ![c] = IdleCall]
    /\ UNCHANGED <<tableLog, connectionRetries, lastSettled>>
    /\ UNCHANGED <<chanVars, outerVars>>

\* Some code of the application calls portfolioService.getPortfolioByQuarter.
CallerStarts(c, quarter) ==
    /\ StartCall(c, quarter, Caller)
    /\ UNCHANGED <<tableLog, connectionRetries, lastSettled>>
    /\ UNCHANGED <<chanVars, outerVars>>

(***************************************************************************)
(* The other operations of PortfolioService: one request each, and the     *)
(* hook's addConstituent, updateConstituent and deleteConstituent, which   *)
(* await the service's.  arg is the set of rows an operation is about (for *)
(* searchConstituents, the rows its search term matches).                  *)
(***************************************************************************)
\* .order('quarter', { ascending: false }) and the Map's insertion order
QuartersDesc == <<"Q2 2024", "Q1 2024">>

QuarterList(t) ==
    SelectSeq(QuartersDesc, LAMBDA q : \E id \in t : RowQuarter(id) = q)

\* .select('quarter').order('created_at', { ascending: false }).limit(1);
\* rows are created in the order of their ids
LatestQuarter(t) ==
    IF t = {} THEN <<>>
    ELSE <<RowQuarter(CHOOSE id \in t : \A other \in t : other <= id)>>

ReadResult(kind, arg) ==
    IF kind = "getQuartersSummary" THEN QuarterList(Table)
    ELSE IF kind = "getLatestPortfolio" THEN LatestQuarter(Table)
    ELSE OrderByWeightDesc(Table \cap arg)

\* Whether the backend can carry out the statement: an insert of an existing id
\* or an update ... .single() of a missing row ends in an error.
Acceptable(kind, arg) ==
    IF kind \in {"addConstituent", "bulkInsertConstituents"} THEN arg \cap Table = {}
    ELSE IF kind = "updateConstituent" THEN arg \subseteq Table
    ELSE TRUE

TableAfter(kind, arg) ==
    IF kind \in {"addConstituent", "bulkInsertConstituents"} THEN Table \cup arg
    ELSE IF kind = "deleteConstituent" THEN Table \ arg
    ELSE Table

RowsChanged(kind, arg) ==
    IF kind \in Reads THEN 0
    ELSE IF kind = "deleteConstituent" THEN Cardinality(arg \cap Table)
    ELSE Cardinality(arg)

\* A service operation is entered and issues its request.
StartOp(o, kind, arg, owner) ==
    /\ ops[o].pc = "idle"
    /\ \A p \in OpIds : p < o => ops[p].pc # "idle"
    /\ ops' = [ops EXCEPT ![o] = [IdleOp EXCEPT !.kind = kind, !.pc = "request",
                                                !.requests = 1, !.arg = arg,
                                                !.owner = owner]]
    /\ UNCHANGED <<svcVars, chanVars, hookVars, aggVars, sessVars, authVars>>

\* Application code calls an operation of the service.
CallerStartsOp(o, kind, arg) == StartOp(o, kind, arg, "caller")

\* The view calls addConstituent, updateConstituent or deleteConstituent of the hook.
HookStartsOp(o, kind, arg) ==
    /\ kind \in {"addConstituent", "updateConstituent", "deleteConstituent"}
    /\ StartOp(o, kind, arg, "hook")

\* The backend carries out the request; a change of n rows is committed and
\* queues n events on every open channel.
BackendExecutes(o) ==
    /\ ops[o].pc = "request"
    /\ Acceptable(ops[o].kind, ops[o].arg)
    /\ ops' = [ops EXCEPT ![o].pc = "answered",
                          ![o].resp = [ok |-> TRUE,
                                       data |-> IF ops[o].kind \in Reads
                                                THEN ReadResult(ops[o].kind, ops[o].arg)
                                                ELSE <<>>,
                                       message |-> <<>>]]
    /\ IF RowsChanged(ops[o].kind, ops[o].arg) > 0
       THEN /\ Len(tableLog) <= MaxChanges
            /\ tableLog' = Append(tableLog, TableAfter(ops[o].kind, ops[o].arg))
            /\ channels' = [ch \in ChannelIds |->
                              IF channels[ch].state = "open"
                              THEN [channels[ch] EXCEPT
                                       !.pending = @ + RowsChanged(ops[o].kind, ops[o].arg)]
                              ELSE channels[ch]]
       ELSE UNCHANGED <<tableLog, channels>>
    /\ UNCHANGED <<connectionRetries, calls, lastSettled>>
    /\ UNCHANGED <<realtimeChannel, subscribers, reconnectTimers, channelErrors,
                   handles, lastSeen, notified>>
    /\ UNCHANGED <<hookVars, aggVars, sessVars, authVars>>

\* The request fails: { data: null, error: { message } }.
BackendRejects(o, message) ==
    /\ ops[o].pc = "request"
    /\ ops' = [ops EXCEPT ![o].pc = "answered",
                          ![o].resp = [ok |-> FALSE, data |-> <<>>, message |-> message]]
    /\ UNCHANGED <<svcVars, chanVars, hookVars, aggVars, sessVars, authVars>>

FailedToAdd == <<"F","a","i","l","e","d"," ","t","o"," ","a","d","d"," ","c","o","n","s","t","i","t","u","e","n","t">>

FailedToUpdate == <<"F","a","i","l","e","d"," ","t","o"," ","u","p","d","a","t","e"," ","c","o","n","s","t","i","t","u","e","n","t">>

FailedToDelete == <<"F","a","i","l","e","d"," ","t","o"," ","d","e","l","e","t","e"," ","c","o","n","s","t","i","t","u","e","n","t">>

DefaultMessage(kind) ==
    IF kind = "addConstituent" THEN FailedToAdd
    ELSE IF kind = "updateConstituent" THEN FailedToUpdate
    ELSE FailedToDelete

HookOpFailedDropsData(kind, message) ==
    /\ error' \in {[set |-> TRUE, message |-> message],
                   [set |-> TRUE, message |-> DefaultMessage(kind)]}
    /\ portfolioData' = <<>>
    /\ UNCHANGED <<selectedQuarter, quarters, loading, user, isInitialized, hookSub>>

\* catch (err) { setError(err instanceof Error ? err.message : '...'); throw err }
HookOpFailed(kind, message) ==
    /\ error' \in {[set |-> TRUE, message |-> message],
                   [set |-> TRUE, message |-> DefaultMessage(kind)]}
    /\ UNCHANGED <<selectedQuarter, portfolioData, quarters, loading, user,
                   isInitialized, hookSub>>

FailedToLoadQuarters ==
    <<"F","a","i","l","e","d"," ","t","o"," ","l","o","a","d"," ","q","u","a","r","t","e","r","s">>

\* if (!selectedQuarter && quartersData.length > 0), selectedQuarter being the one
\* of the render that made this loadQuarters
SetsDefaultQuarter(o) == ops[o].seen = Null /\ ops[o].resp.data # <<>>

\* getQuartersSummary settles and the loadQuarters awaiting it goes on:
\* setQuarters(quartersData) and, with no quarter selected, setSelectedQuarter(
\* quartersData[0].quarter), followed by the effects of the render; or
\* catch (err) { setError(...) }.  The promise is not kept.
LoadQuartersSettles(o) ==
    /\ ops[o].pc = "answered"
    /\ ops[o].owner = "loadQuarters"
    /\ LET settled == [ops EXCEPT ![o] = IdleOp]
           new == IF SetsDefaultQuarter(o)
                  THEN [HookDeps EXCEPT !.selectedQuarter = ops[o].resp.data[1]]
                  ELSE HookDeps
       IN  IF ops[o].resp.ok
           THEN /\ quarters' = ops[o].resp.data
                /\ selectedQuarter' = new.selectedQuarter
                /\ EffectsStartLoads(HookDeps, new, calls, loading, error)
                /\ EffectsLoadQuarters(HookDeps, new, settled)
                /\ EffectsSubscribe(HookDeps, new)
                /\ UNCHANGED <<portfolioData, user, isInitialized>>
           ELSE /\ error' \in {[set |-> TRUE, message |-> ops[o].resp.message],
                                [set |-> TRUE, message |-> FailedToLoadQuarters]}
                /\ ops' = settled
                /\ UNCHANGED <<selectedQuarter, quarters, portfolioData, loading, user,
                               isInitialized, hookSub>>
                /\ UNCHANGED <<calls, realtimeChannel, subscribers, channels>>
    /\ UNCHANGED <<tableLog, connectionRetries, lastSettled>>
    /\ UNCHANGED <<reconnectTimers, channelErrors, handles, lastSeen, notified>>
    /\ UNCHANGED <<aggVars, sessVars, authVars>>

OpThrows(o) ==
    /\ ~ops[o].resp.ok
    /\ ops' = [ops EXCEPT ![o].pc = "thrown", ![o].rethrown = (ops[o].owner = "hook")]
    /\ IF ops[o].owner = "hook"
       THEN HookOpFailed(ops[o].kind, ops[o].resp.message)
       ELSE UNCHANGED hookVars
    /\ UNCHANGED calls

OpThrowsOrRetries(o) ==
    /\ ~ops[o].resp.ok
    /\ IF LooksLikeNetworkError(ops[o].resp.message) /\ ops[o].requests < maxRetries
       THEN ops' = [ops EXCEPT ![o].pc = "request", ![o].requests = @ + 1]
       ELSE ops' = [ops EXCEPT ![o].pc = "thrown"]
    /\ UNCHANGED hookVars
    /\ UNCHANGED calls

\* if (error) throw error
OpOnError(o) == OpThrows(o)

\* The awaited request settles and the operation goes on: it throws the error,
\* returns, or (getLatestPortfolio with a quarter found) returns the promise of
\* getPortfolioByQuarter(latestQuarter[0].quarter).
OpSettles(o) ==
    /\ ops[o].pc = "answered"
    /\ ops[o].owner # "loadQuarters"
    /\ \/ OpOnError(o)
       \/ /\ ops[o].resp.ok
          /\ ops[o].kind = "getLatestPortfolio" /\ ops[o].resp.data # <<>>
          /\ \E c \in CallIds :
                /\ StartCall(c, ops[o].resp.data[1], Latest(o))
                /\ ops' = [ops EXCEPT ![o].pc = "delegated", ![o].call = c]
          /\ UNCHANGED hookVars
       \/ /\ ops[o].resp.ok
          /\ ~(ops[o].kind = "getLatestPortfolio" /\ ops[o].resp.data # <<>>)
          /\ ops' = [ops EXCEPT ![o].pc = "returned"]
          /\ UNCHANGED <<calls, hookVars>>
    /\ UNCHANGED <<tableLog, connectionRetries, lastSettled>>
    /\ UNCHANGED <<chanVars, aggVars, sessVars, authVars>>

\* The getPortfolioByQuarter call that getLatestPortfolio returned has settled.
LatestSettles(o) ==
    /\ ops[o].pc = "delegated"
    /\ calls[ops[o].call].pc \in {"returned", "thrown"}
    /\ ops' = [ops EXCEPT ![o].pc = calls[ops[o].call].pc,
                          ![o].resp = [ok |-> calls[ops[o].call].resp.ok,
                                       data |-> calls[ops[o].call].resp.data,
                                       message |-> calls[ops[o].call].resp.message]]
    /\ UNCHANGED <<svcVars, chanVars, hookVars, aggVars, sessVars, authVars>>

(***************************************************************************)
(* AuthProvider: the context's copy of the vendor's session, and the route *)
(* kept in localStorage['lastUserLocation'] across the OAuth redirect.     *)
(* A task is the rest of an async function that waits on an await.         *)
(***************************************************************************)
MaxAuthEvents == 3

UserIds == {"u1", "u2"}

AuthPaths == {"/", "/auth/callback", "/backtest", "/momentum"}

NoLocation == "none"

\* a Session of the vendor; its user is always set
Sessions == {[user |-> u] : u \in UserIds}

\* null where a Session is expected
NoSession == [user |-> Null]

AuthEvent(event, s) == [event |-> event, session |-> s]

InitialTask == [kind |-> "initial", pc |-> "getSession", event |-> "", seen |-> NoLocation]

CallbackTask == [kind |-> "callback", pc |-> "getSession", event |-> "", seen |-> NoLocation]

\* seen: what localStorage held when the event reached the handler
HandlerTask(event, seen) ==
    [kind |-> "handler", pc |-> "profile", event |-> event, seen |-> seen]

HandlerTasks ==
    {HandlerTask(event, seen) : event \in {"SIGNED_IN", "INITIAL_SESSION"},
                                seen \in AuthPaths \cup {NoLocation}}

UserOfKept(s) == authUser

\* session?.user ?? null
UserOf(s) == IF s = NoSession THEN Null ELSE s.user

\* if (currentPath !== '/auth/callback') storeUserLocation(currentPath)
StoreCurrentPath(stored) == IF pathname # "/auth/callback" THEN pathname ELSE stored

\* useEffect(() => { if (user && isInitialized) { ... storeUserLocation(currentPath) } },
\*   [user, isInitialized]); changed: a dependency is another value than before
TrackingEffect(changed, newUser, newInitialized, stored) ==
    IF changed /\ newUser # Null /\ newInitialized THEN StoreCurrentPath(stored)
    ELSE stored

\* if (lastLocation && lastLocation !== '/auth/callback' && lastLocation !== '/')
Redirects(lastLocation) ==
    lastLocation # NoLocation /\ lastLocation # "/auth/callback" /\ lastLocation # "/"

\* localStorage.removeItem('lastUserLocation')
AuthClearStoredLocation == NoLocation

AuthInit ==
    /\ vendorSession = NoSession
    /\ session = NoSession
    /\ authUser = Null
    /\ authInitialized = FALSE
    /\ lastUserLocation = NoLocation
    /\ pathname \in AuthPaths \ {"/auth/callback"}
    /\ authEvents = <<>>
    /\ authTasks = {InitialTask}
    /\ redirectTimers = {}
    /\ authEmitted = 0

AuthIdle ==
    /\ vendorSession = NoSession
    /\ session = NoSession
    /\ authUser = Null
    /\ authInitialized = FALSE
    /\ lastUserLocation = NoLocation
    /\ pathname = "/"
    /\ authEvents = <<>>
    /\ authTasks = {}
    /\ redirectTimers = {}
    /\ authEmitted = 0

\* The document at path is loaded: the provider mounts with its initial state, its
\* effect starts getInitialSession and registers the handler; pending timers and
\* continuations of the page left are gone.  events: what the vendor's client
\* announces while it starts.
PageLoads(path, events) ==
    /\ pathname' = path
    /\ session' = NoSession
    /\ authUser' = Null
    /\ authInitialized' = FALSE
    /\ authEvents' = events
    /\ authTasks' = IF path = "/auth/callback" THEN {InitialTask, CallbackTask}
                    ELSE {InitialTask}
    /\ redirectTimers' = {}

\* await supabase.auth.getSession() of getInitialSession resolves.
InitialSessionResolves(ok) ==
    /\ InitialTask \in authTasks
    /\ IF ok
       THEN /\ session' = vendorSession
            /\ authUser' = UserOf(vendorSession)
            /\ IF vendorSession # NoSession
               THEN /\ authTasks' = (authTasks \ {InitialTask})
                                       \cup {[InitialTask EXCEPT !.pc = "profile"]}
                    /\ UNCHANGED authInitialized
                    /\ lastUserLocation' =
                          TrackingEffect(authUser # UserOf(vendorSession),
                                         UserOf(vendorSession), authInitialized,
                                         lastUserLocation)
               ELSE /\ authTasks' = authTasks \ {InitialTask}
                    /\ authInitialized' = TRUE
                    /\ UNCHANGED lastUserLocation
       ELSE /\ authTasks' = authTasks \ {InitialTask}
            /\ authInitialized' = TRUE
            /\ lastUserLocation' = TrackingEffect(TRUE, authUser, TRUE, lastUserLocation)
            /\ UNCHANGED <<session, authUser>>
    /\ UNCHANGED <<vendorSession, pathname, authEvents, redirectTimers, authEmitted>>
    /\ UNCHANGED nonAuthVars

\* await fetchUserProfile(...) of getInitialSession is over: the current path is
\* stored and the finally block sets isInitialized.
InitialProfileFetched ==
    /\ [InitialTask EXCEPT !.pc = "profile"] \in authTasks
    /\ authTasks' = authTasks \ {[InitialTask EXCEPT !.pc = "profile"]}
    /\ authInitialized' = TRUE
    /\ lastUserLocation' = TrackingEffect(TRUE, authUser, TRUE,
                                          StoreCurrentPath(lastUserLocation))
    /\ UNCHANGED <<vendorSession, session, authUser, pathname, authEvents,
                   redirectTimers, authEmitted>>
    /\ UNCHANGED nonAuthVars

\* The handler of onAuthStateChange is called with the next event: setSession,
\* setUser, then either the await of fetchUserProfile or, without a user,
\* setUserProfile(null) and the SIGNED_OUT branch.  rerun: session.user is another
\* object than the one held, also when it is the same user.
AuthEventDelivered(rerun) ==
    /\ authEvents # <<>>
    /\ authEvents' = Tail(authEvents)
    /\ session' = Head(authEvents).session
    /\ authUser' = UserOf(Head(authEvents).session)
    /\ IF Head(authEvents).session # NoSession
       THEN /\ authTasks' = authTasks \cup
                              {HandlerTask(Head(authEvents).event, lastUserLocation)}
            /\ lastUserLocation' =
                  TrackingEffect(rerun \/ authUser # UserOf(Head(authEvents).session),
                                 UserOf(Head(authEvents).session), authInitialized,
                                 lastUserLocation)
       ELSE /\ lastUserLocation' = IF Head(authEvents).event = "SIGNED_OUT"
                                   THEN AuthClearStoredLocation
                                   ELSE lastUserLocation
            /\ UNCHANGED authTasks
    /\ UNCHANGED <<vendorSession, authInitialized, pathname, redirectTimers, authEmitted>>
    /\ UNCHANGED nonAuthVars

\* await fetchUserProfile(...) of the handler is over: on SIGNED_IN the stored
\* location is read and setTimeout(() => { window.location.href = lastLocation }, 100).
HandlerProfileFetched(task) ==
    /\ task \in authTasks /\ task.kind = "handler"
    /\ authTasks' = authTasks \ {task}
    /\ redirectTimers' = IF task.event = "SIGNED_IN" /\ Redirects(lastUserLocation)
                         THEN redirectTimers \cup {lastUserLocation}
                         ELSE redirectTimers
    /\ UNCHANGED <<vendorSession, session, authUser, authInitialized, lastUserLocation,
                   pathname, authEvents, authEmitted>>
    /\ UNCHANGED nonAuthVars

\* What the vendor's client announces when a page starts with the session it kept.
StartEvents ==
    IF vendorSession = NoSession THEN {<<>>, <<AuthEvent("INITIAL_SESSION", NoSession)>>}
    ELSE {<<>>, <<AuthEvent("INITIAL_SESSION", vendorSession)>>,
          <<AuthEvent("SIGNED_IN", vendorSession)>>}

\* 100 ms later: window.location.href = lastLocation.
RedirectTimerFires(lastLocation) ==
    /\ lastLocation \in redirectTimers
    /\ \E events \in StartEvents :
          /\ Len(events) + authEmitted <= MaxAuthEvents
          /\ authEmitted' = authEmitted + Len(events)
          /\ PageLoads(lastLocation, events)
    /\ UNCHANGED <<vendorSession, lastUserLocation>>
    /\ UNCHANGED nonAuthVars

\* A route change inside the page (a link, navigate(...)).
Navigate(path) ==
    /\ path # pathname /\ path # "/auth/callback"
    /\ pathname' = path
    /\ UNCHANGED <<vendorSession, session, authUser, authInitialized, lastUserLocation,
                   authEvents, authTasks, redirectTimers, authEmitted>>
    /\ UNCHANGED nonAuthVars

\* AuthCallback: await supabase.auth.getSession(), then navigate('/momentum') with a
\* session and navigate('/') without one or on an error.
CallbackResolves(ok) ==
    /\ CallbackTask \in authTasks
    /\ authTasks' = authTasks \ {CallbackTask}
    /\ pathname' = IF ok /\ vendorSession # NoSession THEN "/momentum" ELSE "/"
    /\ UNCHANGED <<vendorSession, session, authUser, authInitialized, lastUserLocation,
                   authEvents, redirectTimers, authEmitted>>
    /\ UNCHANGED nonAuthVars

\* signInWithGoogle: the current path is stored, the browser leaves for the
\* identity provider and comes back on /auth/callback, where the vendor's client
\* exchanges the code and announces SIGNED_IN.
SignInWithGoogle(u) ==
    /\ authEmitted < MaxAuthEvents
    /\ authEmitted' = authEmitted + 1
    /\ lastUserLocation' = StoreCurrentPath(lastUserLocation)
    /\ vendorSession' = [user |-> u]
    /\ PageLoads("/auth/callback", <<AuthEvent("SIGNED_IN", [user |-> u])>>)
    /\ UNCHANGED nonAuthVars

\* signOut: clearStoredLocation() and supabase.auth.signOut(), which announces
\* SIGNED_OUT.
SignOut ==
    /\ vendorSession # NoSession
    /\ authEmitted < MaxAuthEvents
    /\ authEmitted' = authEmitted + 1
    /\ vendorSession' = NoSession
    /\ authEvents' = Append(authEvents, AuthEvent("SIGNED_OUT", NoSession))
    /\ lastUserLocation' = AuthClearStoredLocation
    /\ UNCHANGED <<session, authUser, authInitialized, pathname, authTasks,
                   redirectTimers>>
    /\ UNCHANGED nonAuthVars

\* The vendor's client announces a change that did not start in this page: the
\* session of another tab, a sign-out elsewhere or an expired session.
VendorAnnounces(event, s) ==
    /\ authEmitted < MaxAuthEvents
    /\ authEmitted' = authEmitted + 1
    /\ \/ event = "SIGNED_IN" /\ s # NoSession
       \/ event = "SIGNED_OUT" /\ s = NoSession /\ vendorSession # NoSession
    /\ vendorSession' = s
    /\ authEvents' = Append(authEvents, AuthEvent(event, s))
    /\ UNCHANGED <<session, authUser, authInitialized, lastUserLocation, pathname,
                   authTasks, redirectTimers>>
    /\ UNCHANGED nonAuthVars

\* restoreSession: await supabase.auth.getSession(); with a session, setSession and
\* setUser; with none or with an error, nothing is set.
RestoreSession(rerun) ==
    /\ vendorSession # NoSession
    /\ session' = vendorSession
    /\ authUser' = UserOf(vendorSession)
    /\ lastUserLocation' = TrackingEffect(rerun \/ authUser # UserOf(vendorSession),
                                          UserOf(vendorSession), authInitialized,
                                          lastUserLocation)
    /\ UNCHANGED <<vendorSession, authInitialized, pathname, authEvents, authTasks,
                   redirectTimers, authEmitted>>
    /\ UNCHANGED nonAuthVars

(***************************************************************************)
(* The specifications.                                                     *)
(***************************************************************************)
InitAgg == AggInit /\ SessIdle /\ SvcIdle /\ ChanIdle /\ HookIdle /\ OpsIdle /\ AuthIdle

NextAgg == GetQuartersSummary

SpecAgg == InitAgg /\ [][NextAgg]_vars

InitSession == SessInit /\ AggIdle /\ SvcIdle /\ ChanIdle /\ HookIdle /\ OpsIdle /\ AuthIdle

NextSession ==
    \/ \E path \in Paths : StoreLocation(path)
    \/ ClearStoredLocation
    \/ GetStoredLocation
    \/ \E d \in TickSteps : Tick(d)

SpecSession == InitSession /\ [][NextSession]_vars

\* getPortfolioByQuarter alone: up to MaxCalls calls, possibly overlapping.
InitRetry == SvcInit /\ ChanIdle /\ HookIdle /\ AggIdle /\ SessIdle /\ OpsIdle /\ AuthIdle

NextRetry ==
    \/ \E c \in CallIds, q \in QuarterLabels : CallerStarts(c, q)
    \/ \E c \in CallIds : SessionResolved(c)
    \/ \E c \in CallIds : BackendAnswers(c)
    \/ \E c \in CallIds, m \in ErrorMessages : BackendFails(c, m)
    \/ \E c \in CallIds : ReceiveError(c)
    \/ \E c \in CallIds : ReceiveData(c)
    \/ \E c \in CallIds : BackoffElapsed(c)

SpecRetry == InitRetry /\ [][NextRetry]_vars

\* The same with no limit on how many calls are made over time, and with every
\* await eventually resumed: getSession() resolves, every request gets a response
\* (data or an error), every timer fires, every settled promise is received.
NextRetryFair ==
    \/ \E c \in CallIds, q \in QuarterLabels : CallerStarts(c, q)
    \/ \E c \in CallIds : SessionResolved(c)
    \/ \E c \in CallIds : BackendAnswers(c)
    \/ \E c \in CallIds, m \in ErrorMessages : BackendFails(c, m)
    \/ \E c \in CallIds : ReceiveError(c)
    \/ \E c \in CallIds : ReceiveData(c)
    \/ \E c \in CallIds : BackoffElapsed(c)
    \/ \E c \in CallIds : Forget(c)

FairRetry ==
    \A c \in CallIds :
        /\ WF_vars(SessionResolved(c))
        /\ WF_vars(BackendAnswers(c) \/ \E m \in ErrorMessages : BackendFails(c, m))
        /\ WF_vars(ReceiveError(c))
        /\ WF_vars(ReceiveData(c))
        /\ WF_vars(BackoffElapsed(c))

SpecRetryFair == InitRetry /\ [][NextRetryFair]_vars /\ FairRetry

\* The subscription singleton with up to MaxSubscribers subscribing components,
\* table changes and the refetches they trigger.  The failures the backend
\* produces here are of the kind that is not retried.
InitChannel == SvcInit /\ ChanInit /\ HookIdle /\ AggIdle /\ SessIdle /\ OpsIdle /\ AuthIdle

NextChannel ==
    \/ \E cb \in Callbacks : Subscribe(cb, QuarterOf(cb))
    \/ \E cb \in Callbacks : Unsubscribe(cb)
    \/ \E id \in RowIds : TableChanges(id)
    \/ \E ch \in ChannelIds, c \in CallIds : EventArrives(ch, c)
    \/ \E ch \in ChannelIds : ChannelError(ch)
    \/ ReconnectTimerFires
    \/ \E c \in CallIds : SessionResolved(c)
    \/ \E c \in CallIds : BackendAnswers(c)
    \/ \E c \in CallIds : BackendFails(c, MsgFetch)
    \/ \E c \in CallIds : ReceiveError(c)
    \/ \E c \in CallIds : ReceiveData(c)

SpecChannel == InitChannel /\ [][NextChannel]_vars

\* One mounted usePortfolioData hook over the service, with table changes (of one
\* row of each quarter) and the deliveries they lead to.  The failures the backend
\* produces here are failed refetches and loads, of the kind that is not retried.
InitHook == SvcInit /\ ChanInit /\ HookInit /\ AggIdle /\ SessIdle /\ OpsInit /\ AuthIdle

NextHook ==
    \/ \E q \in QuarterLabels : HandleQuarterChange(q)
    \/ AuthInitialized
    \/ SignedIn
    \/ SignedOut
    \/ \E o \in OpIds : BackendExecutes(o)
    \/ \E o \in OpIds : LoadQuartersSettles(o)
    \/ \E id \in {1, 3} : TableChanges(id)
    \/ \E ch \in ChannelIds, c \in CallIds : EventArrives(ch, c)
    \/ \E c \in CallIds : SessionResolved(c)
    \/ \E c \in CallIds : BackendAnswers(c)
    \/ \E c \in CallIds : BackendFails(c, MsgFetch)
    \/ \E c \in CallIds : ReceiveError(c)
    \/ \E c \in CallIds : ReceiveData(c)

SpecHook == InitHook /\ [][NextHook]_vars

\* The hook from its mount on, over a backend that holds rows or none: the
\* effects, loadQuarters and loadPortfolioData, each of which may fail.
InitLoad ==
    /\ tableLog \in {<<RowIds>>, <<{}>>}
    /\ connectionRetries = 0
    /\ calls = [c \in CallIds |-> IdleCall]
    /\ lastSettled = "none"
    /\ ChanInit /\ HookInit /\ OpsInit /\ AggIdle /\ SessIdle /\ AuthIdle

NextLoad ==
    \/ \E q \in QuarterLabels : HandleQuarterChange(q)
    \/ AuthInitialized
    \/ SignedIn
    \/ SignedOut
    \/ \E o \in OpIds : BackendExecutes(o)
    \/ \E o \in OpIds : BackendRejects(o, MsgFetch)
    \/ \E o \in OpIds : LoadQuartersSettles(o)
    \/ \E c \in CallIds : SessionResolved(c)
    \/ \E c \in CallIds : BackendAnswers(c)
    \/ \E c \in CallIds : BackendFails(c, MsgFetch)
    \/ \E c \in CallIds : ReceiveError(c)
    \/ \E c \in CallIds : ReceiveData(c)

SpecLoad == InitLoad /\ [][NextLoad]_vars

(***************************************************************************)
(* The service's operations and the hook's CRUD functions, on a page that  *)
(* is signed in, shows a quarter and holds its subscription.               *)
(***************************************************************************)
InitOps ==
    /\ tableLog = <<RowIds>>
    /\ connectionRetries = 0
    /\ calls = [c \in CallIds |-> IdleCall]
    /\ lastSettled = "returned"
    /\ OpsInit
    /\ \E q \in QuarterLabels :
          /\ selectedQuarter = q
          /\ portfolioData = RowsOfTable(RowIds, q)
          /\ realtimeChannel = 1
          /\ channels = [ch \in ChannelIds |->
                           IF ch = 1 THEN [UnusedChannel EXCEPT !.state = "open",
                                                                !.quarter = q]
                           ELSE UnusedChannel]
    /\ quarters = QuarterList(RowIds)
    /\ loading = FALSE
    /\ error = NoError
    /\ user = TRUE
    /\ isInitialized = TRUE
    /\ hookSub = TRUE
    /\ subscribers = {HookCallback}
    /\ reconnectTimers = <<>>
    /\ channelErrors = 0
    /\ handles = {}
    /\ lastSeen = [cb \in Callbacks \cup {HookCallback} |-> NoSnapshot]
    /\ notified = [cb \in Callbacks |-> 0]
    /\ AggIdle /\ SessIdle /\ AuthIdle

NextOps ==
    \/ \E o \in OpIds, kind \in Reads \cup Writes : \E arg \in OpArgs(kind) :
          CallerStartsOp(o, kind, arg)
    \/ \E o \in OpIds, kind \in Writes : \E arg \in OpArgs(kind) :
          HookStartsOp(o, kind, arg)
    \/ \E o \in OpIds : BackendExecutes(o)
    \/ \E o \in OpIds, m \in ErrorMessages : BackendRejects(o, m)
    \/ \E o \in OpIds : OpSettles(o)
    \/ \E o \in OpIds : LoadQuartersSettles(o)
    \/ \E o \in OpIds : LatestSettles(o)
    \/ \E ch \in ChannelIds, c \in CallIds : EventArrives(ch, c)
    \/ \E c \in CallIds : SessionResolved(c)
    \/ \E c \in CallIds : BackendAnswers(c)
    \/ \E c \in CallIds : BackendFails(c, MsgFetch)
    \/ \E c \in CallIds : ReceiveError(c)
    \/ \E c \in CallIds : ReceiveData(c)

SpecOps == InitOps /\ [][NextOps]_vars

(***************************************************************************)
(* The authentication context on its own.                                  *)
(***************************************************************************)
InitAuth == AuthInit /\ AggIdle /\ SessIdle /\ SvcIdle /\ ChanIdle /\ HookIdle /\ OpsIdle

NextAuth ==
    \/ \E ok \in BOOLEAN : InitialSessionResolves(ok)
    \/ InitialProfileFetched
    \/ \E rerun \in BOOLEAN : AuthEventDelivered(rerun)
    \/ \E task \in HandlerTasks : HandlerProfileFetched(task)
    \/ \E lastLocation \in AuthPaths : RedirectTimerFires(lastLocation)
    \/ \E path \in AuthPaths : Navigate(path)
    \/ \E ok \in BOOLEAN : CallbackResolves(ok)
    \/ \E u \in UserIds : SignInWithGoogle(u)
    \/ SignOut
    \/ \E event \in {"SIGNED_IN", "SIGNED_OUT"}, s \in Sessions \cup {NoSession} :
          VendorAnnounces(event, s)
    \/ \E rerun \in BOOLEAN : RestoreSession(rerun)

SpecAuth == InitAuth /\ [][NextAuth]_vars

(***************************************************************************)
(* The claims.                                                             *)
(***************************************************************************)
\* ---- reference quantities of the input rows
RowsOfQuarter(q) == SelectSeq(rows, LAMBDA r : r.quarter = q)

RECURSIVE SumWeight(_)
SumWeight(data) ==
    IF data = <<>> THEN 0 ELSE data[1].weight + SumWeight(Tail(data))

RECURSIVE SumReturns(_)
SumReturns(data) ==
    IF data = <<>> THEN 0 ELSE data[1].quarterly_returns + SumReturns(Tail(data))

RECURSIVE SumStocks(_)
SumStocks(sums) ==
    IF sums = <<>> THEN 0 ELSE sums[1].total_stocks + SumStocks(Tail(sums))

InputQuarters == {rows[i].quarter : i \in 1..Len(rows)}

\* C3: getQuartersSummary returns exactly one summary per distinct quarter of the
\* input rows (none for absent quarters, the empty list for empty input); each
\* summary's total_stocks is the number of input rows of its quarter and its
\* total_weight the sum of their weights, so the total_stocks add up to Len(rows).
C3_OneSummaryPerQuarter ==
    aggPc = "done" =>
        /\ {summaries[i].quarter : i \in 1..Len(summaries)} = InputQuarters
        /\ Len(summaries) = Cardinality(InputQuarters)
        /\ \A i \in 1..Len(summaries) :
              /\ summaries[i].total_stocks = Len(RowsOfQuarter(summaries[i].quarter))
              /\ summaries[i].total_weight = SumWeight(RowsOfQuarter(summaries[i].quarter))
        /\ SumStocks(summaries) = Len(rows)

C3_Witness ==
    /\ aggPc = "done"
    /\ Len(summaries) = 2
    /\ Len(rows) >= 4
    /\ rows[1].quarter # rows[2].quarter
    /\ rows[1].quarter = rows[3].quarter
    /\ \E i \in 1..Len(summaries) : summaries[i].total_stocks >= 3

\* C4 as claimed: for every summary, avg_returns * total_stocks equals the sum of
\* the quarterly_returns of the quarter's rows, and total_stocks >= 1.
C4_AvgTimesCountIsSum ==
    aggPc = "done" =>
        \A i \in 1..Len(summaries) :
            /\ summaries[i].total_stocks >= 1
            /\ FMul(summaries[i].avg_returns, summaries[i].total_stocks)
                   = ToDouble(SumReturns(RowsOfQuarter(summaries[i].quarter)))

\* C4 amended: for every summary, total_stocks >= 1 (the division is never by
\* zero: avg_returns is a finite number), avg_returns is the double nearest to
\* (sum of the quarter's quarterly_returns) / total_stocks, and avg_returns *
\* total_stocks equals that sum whenever total_stocks divides it.
C4_AvgIsRoundedQuotient ==
    aggPc = "done" =>
        \A i \in 1..Len(summaries) :
            LET sum == SumReturns(RowsOfQuarter(summaries[i].quarter))
                n   == summaries[i].total_stocks
            IN  /\ n >= 1
                /\ summaries[i].avg_returns.kind \in {"finite", "zero"}
                /\ summaries[i].avg_returns = FDiv(sum, Len(RowsOfQuarter(summaries[i].quarter)))
                /\ (sum % n = 0 =>
                       FMul(summaries[i].avg_returns, n) = ToDouble(sum))

C4_Witness ==
    /\ aggPc = "done"
    /\ \E i \in 1..Len(summaries) :
          /\ summaries[i].total_stocks >= 3
          /\ SumReturns(RowsOfQuarter(summaries[i].quarter)) % summaries[i].total_stocks # 0
          /\ summaries[i].avg_returns.kind = "finite"
    /\ \E i \in 1..Len(summaries) :
          /\ summaries[i].total_stocks >= 2
          /\ SumReturns(RowsOfQuarter(summaries[i].quarter)) % summaries[i].total_stocks = 0
          /\ FMul(summaries[i].avg_returns, summaries[i].total_stocks)
                 = ToDouble(SumReturns(RowsOfQuarter(summaries[i].quarter)))

\* C5 as claimed: whatever storeLocation, getStoredLocation and
\* clearStoredLocation calls were made, the persisted last location is never one
\* of the excluded paths "/", "/login", "/signup", "/auth/callback".
C5_NeverStoresExcludedPath ==
    locationItem # NoItem => JsonParse(locationItem).lastLocation \notin excludedPaths

\* C6 as claimed: getStoredLocation returns the stored path for every age below
\* SESSION_TIMEOUT and null for every age from SESSION_TIMEOUT on.
C6_ExpiresFromThreshold ==
    (lastGet.called /\ lastGet.stored # Null) =>
        /\ lastGet.age < SESSION_TIMEOUT => lastGet.result = lastGet.stored
        /\ lastGet.age >= SESSION_TIMEOUT => lastGet.result = Null

\* C6 amended: getStoredLocation returns the stored path for every age up to and
\* including SESSION_TIMEOUT, and returns null (removing the item) for every age
\* strictly above it.
C6_ExpiresAboveThreshold ==
    (lastGet.called /\ lastGet.stored # Null) =>
        /\ lastGet.age <= SESSION_TIMEOUT => lastGet.result = lastGet.stored
        /\ lastGet.age > SESSION_TIMEOUT => lastGet.result = Null

C6_Witness ==
    /\ lastGet.called
    /\ lastGet.age = SESSION_TIMEOUT
    /\ lastGet.stored = "/momentum"
    /\ lastGet.result = "/momentum"
    /\ locationItem # NoItem

\* C1 as claimed: a call of getPortfolioByQuarter issues at most maxRetries (3)
\* queries, the first one included, whatever the backend answers.
C1_AtMostMaxRetriesAttempts ==
    \A c \in CallIds : calls[c].attempts <= maxRetries

\* C1 amended: a call of getPortfolioByQuarter during which no other call on the
\* service succeeds issues at most maxRetries + 1 queries: the first attempt and
\* at most maxRetries (3) retries.
C1_AtMostMaxRetriesRetries ==
    \A c \in CallIds : ~calls[c].disturbed => calls[c].attempts <= maxRetries + 1

C1_Witness ==
    \E c \in CallIds :
        /\ calls[c].pc = "thrown"
        /\ ~calls[c].disturbed
        /\ calls[c].attempts = maxRetries + 1
        /\ LooksLikeNetworkError(calls[c].resp.message)
        /\ connectionRetries = maxRetries

\* C2: getPortfolioByQuarter retries only after an error whose message contains
\* "connection" or "network"; on any other error the call issues no further
\* query, throws that very error and leaves connectionRetries unchanged.
C2_RetriesOnlyNetworkErrors ==
    [][\A c \in CallIds :
          /\ (calls[c].pc # "backoff" /\ calls'[c].pc = "backoff")
                => LooksLikeNetworkError(calls[c].resp.message)
          /\ (calls[c].pc = "answered" /\ ~calls[c].resp.ok /\ calls'[c].pc # "answered"
                /\ ~LooksLikeNetworkError(calls[c].resp.message))
                => /\ calls'[c].pc = "thrown"
                   /\ calls'[c].resp = calls[c].resp
                   /\ calls'[c].attempts = calls[c].attempts
                   /\ connectionRetries' = connectionRetries
          /\ calls[c].pc = "thrown" => calls'[c] = calls[c]]_vars

C2_Witness ==
    \E c \in CallIds :
        /\ calls[c].pc = "thrown"
        /\ calls[c].resp.message = MsgFetch
        /\ calls[c].attempts = 2
        /\ connectionRetries = 1
        /\ \A d \in CallIds \ {c} : calls[d].pc = "idle"

\* C15 as claimed: the wait before a retry is retryDelay times the value of
\* connectionRetries after its increment, one of 1000, 2000, 3000 ms, and the
\* successive waits of one call never decrease.
C15_WaitsNeverDecrease ==
    [][\A c \in CallIds :
          (calls[c].pc = "answered" /\ calls'[c].pc = "backoff") =>
              /\ calls'[c].wait = retryDelay * connectionRetries'
              /\ connectionRetries' = connectionRetries + 1
              /\ calls'[c].wait \in {1000, 2000, 3000}
              /\ calls'[c].wait >= calls[c].wait]_vars

\* C16: in every reachable state, with any number of getPortfolioByQuarter calls
\* in flight at once, 0 <= connectionRetries <= maxRetries.
C16_RetriesWithinBounds ==
    /\ connectionRetries \in Nat
    /\ 0 <= connectionRetries
    /\ connectionRetries <= maxRetries

C16_Witness ==
    /\ connectionRetries = maxRetries
    /\ \A c \in CallIds : InFlight(c) /\ calls[c].attempts >= 2

\* C17 as claimed: every call of getPortfolioByQuarter eventually returns or
\* throws, provided every backend request eventually gets a response, also when
\* other calls on the same service succeed meanwhile and reset the counter.
C17_EveryCallEnds ==
    \A c \in CallIds : InFlight(c) ~> calls[c].pc \in {"returned", "thrown"}

\* C18: a successful query resets connectionRetries to 0, so whenever no call is
\* in flight and the call that ended last returned, the counter is 0, and a call
\* entered then (fresh) finds the full budget: left alone, it throws only after
\* maxRetries retries.
C18_SuccessRestoresBudget ==
    /\ []((lastSettled = "returned" /\ \A c \in CallIds : ~InFlight(c))
            => connectionRetries = 0)
    /\ [](\A c \in CallIds :
            (calls[c].fresh /\ calls[c].pc = "thrown"
               /\ LooksLikeNetworkError(calls[c].resp.message)
               /\ \A d \in CallIds \ {c} : calls[d].pc \in {"idle", "returned", "thrown"}
                                             /\ (d > c => calls[d].pc = "idle"))
              => calls[c].attempts = maxRetries + 1)
    /\ [][\A c \in CallIds :
            /\ (calls[c].pc = "answered" /\ calls'[c].pc = "returned")
                  => connectionRetries' = 0
            /\ (calls[c].pc = "idle" /\ calls'[c].fresh) => connectionRetries' = 0]_vars

C18_Witness ==
    \E c1 \in CallIds, c2 \in CallIds :
        /\ calls[c1].pc = "returned"
        /\ calls[c1].attempts >= 2
        /\ calls[c2].fresh
        /\ calls[c2].pc = "thrown"
        /\ calls[c2].attempts = maxRetries + 1
        /\ connectionRetries = maxRetries

\* C19: throwing the final error does not reset the counter.  Once it has reached
\* maxRetries it stays there until some call succeeds, and meanwhile every call
\* that receives an error, a network error included, throws it without a retry.
C19_ExhaustedUntilSuccess ==
    [][connectionRetries = maxRetries =>
          /\ \/ connectionRetries' = maxRetries
             \/ \E c \in CallIds : calls[c].pc = "answered" /\ calls[c].resp.ok
                                     /\ calls'[c].pc = "returned"
          /\ \A c \in CallIds :
                (calls[c].pc = "answered" /\ ~calls[c].resp.ok
                   /\ calls'[c].pc # "answered")
                    => /\ calls'[c].pc = "thrown"
                       /\ calls'[c].attempts = calls[c].attempts
                       /\ calls'[c].resp = calls[c].resp]_vars

C19_Witness ==
    \E c1 \in CallIds, c2 \in CallIds :
        /\ calls[c1].pc = "thrown" /\ calls[c1].attempts = maxRetries + 1
        /\ ~calls[c1].disturbed
        /\ calls[c2].pc = "thrown" /\ calls[c2].attempts = 1
        /\ LooksLikeNetworkError(calls[c2].resp.message)
        /\ connectionRetries = maxRetries

\* ---- the one-request operations
\* C11: every operation of the service other than getPortfolioByQuarter
\* (getQuartersSummary, the quarter lookup of getLatestPortfolio,
\* addConstituent, updateConstituent, deleteConstituent,
\* bulkInsertConstituents, searchConstituents) is fatal on a backend error: it
\* has issued exactly one request, issues no other one, throws the backend's
\* error as it is and leaves connectionRetries alone, network error or not.
\* (The getQuartersSummary that the hook's loadQuarters awaits is over in the same
\* step, loadQuarters catching what it throws.)
C11_OtherOperationsFatalOnError ==
    /\ [](\A o \in OpIds : ops[o].requests <= 1)
    /\ [][\A o \in OpIds :
            ops[o].pc = "answered" /\ ~ops[o].resp.ok /\ ops'[o] # ops[o]
            => /\ ops[o].requests = 1
               /\ IF ops[o].owner = "loadQuarters"
                  THEN ops'[o].pc = "idle" /\ error'.set
                  ELSE /\ ops'[o].pc = "thrown"
                       /\ ops'[o].requests = 1
                       /\ ops'[o].resp = ops[o].resp
               /\ connectionRetries' = connectionRetries
               /\ calls' = calls]_vars

C11_Witness ==
    \E o1 \in OpIds, o2 \in OpIds :
        /\ ops[o1].kind \in Reads /\ ops[o2].kind \in Writes
        /\ \A o \in {o1, o2} :
              /\ ops[o].pc = "thrown" /\ ops[o].requests = 1
              /\ LooksLikeNetworkError(ops[o].resp.message)
        /\ connectionRetries = 0

\* C12: when addConstituent, updateConstituent or deleteConstituent of the hook
\* fails, the hook sets error to a non-empty message, throws the error on to its
\* caller and leaves portfolioData, quarters and selectedQuarter as they were.
C12_HookCrudFailureKeepsData ==
    [][\A o \in OpIds :
          ops[o].owner = "hook" /\ ops[o].pc = "answered" /\ ~ops[o].resp.ok
          /\ ops'[o] # ops[o]
          => /\ error'.set /\ Len(error'.message) > 0
             /\ ops'[o].pc = "thrown" /\ ops'[o].rethrown
             /\ ops'[o].resp = ops[o].resp
             /\ portfolioData' = portfolioData
             /\ quarters' = quarters
             /\ selectedQuarter' = selectedQuarter]_vars

\* A CRUD call of the hook failed after a real-time update had replaced the rows
\* shown; the rows are still shown.
C12_Witness ==
    \E o \in OpIds :
        /\ ops[o].owner = "hook" /\ ops[o].pc = "thrown" /\ ops[o].rethrown
        /\ error.set /\ error.message \in ErrorMessages
        /\ portfolioData # <<>>
        /\ portfolioData # RowsOfTable(RowIds, selectedQuarter)
        /\ quarters # <<>>

\* C26 as claimed: after a successful addConstituent, updateConstituent or
\* deleteConstituent of the hook, the subscription brings portfolioData up to date.
\* Stated for the state in which it can no longer happen: the hook's operation has
\* returned, its change is the only one so far, no notification is waiting on a
\* channel and no refetch is under way; then portfolioData shows the rows of the
\* selected quarter as the operation left them.
C26_HookDataFollowsOperation ==
    \A o \in OpIds :
        /\ ops[o].owner = "hook" /\ ops[o].pc = "returned"
        /\ Len(tableLog) = 2
        /\ \A ch \in ChannelIds : channels[ch].pending = 0
        /\ \A c \in CallIds : ~InFlight(c)
        => portfolioData = RowsOfTable(Table, selectedQuarter)

\* ---- the hook's loads
\* C27 as claimed: loadQuarters sets the default quarter only if none is selected;
\* when a loadQuarters goes on after its fetch while a quarter is selected, the
\* selection stays as it is.
C27_LoadQuartersKeepsSelection ==
    [][\A o \in OpIds :
          LoadQuartersSettles(o) /\ selectedQuarter # Null
          => selectedQuarter' = selectedQuarter]_vars

\* C28 as claimed: with auth initialized, no fetch of the hook under way and no
\* error reported, loading is false.
C28_LoadingEndsWithFetches ==
    /\ isInitialized
    /\ \A o \in OpIds : ops[o].pc = "idle"
    /\ \A c \in CallIds : ~InFlight(c)
    /\ ~error.set
    => ~loading

\* ---- the authentication context
\* C13: in every state, the initial session lookup, every auth state change and
\* restoreSession being applied as a whole, user is set exactly when session is,
\* and then user is session.user.
C13_UserMirrorsSession ==
    /\ authUser # Null <=> session # NoSession
    /\ session # NoSession => authUser = session.user

\* The context has taken the session of a second user over from the vendor.
C13_Witness ==
    /\ authInitialized /\ authEvents = <<>> /\ authTasks = {}
    /\ session = vendorSession /\ authUser = "u2" /\ authEmitted >= 2

\* C14 as claimed: when a SIGNED_IN event reaches the handler while a last location
\* other than "/" and "/auth/callback" is stored, the handler (unless the user has
\* signed out in the meantime) schedules the browser to that location; a pending
\* redirect sends the browser to its location; and once a SIGNED_OUT event is
\* handled no last location is stored.
C14_LastLocationSurvivesLogin ==
    /\ [][\A task \in HandlerTasks :
            HandlerProfileFetched(task) /\ task.event = "SIGNED_IN"
            /\ Redirects(task.seen)
            /\ vendorSession # NoSession /\ lastUserLocation # NoLocation
            => task.seen \in redirectTimers']_vars
    /\ [][\A lastLocation \in AuthPaths :
            RedirectTimerFires(lastLocation) => pathname' = lastLocation]_vars
    /\ [][\A rerun \in BOOLEAN :
            AuthEventDelivered(rerun) /\ Head(authEvents).event = "SIGNED_OUT"
            => lastUserLocation' = NoLocation]_vars

\* ---- the subscription singleton
OpenChannels == {ch \in ChannelIds : channels[ch].state = "open"}

Quiet ==
    /\ \A c \in CallIds : ~InFlight(c)
    /\ \A ch \in ChannelIds : channels[ch].pending = 0

\* C8: the service neither orders nor deduplicates overlapping refetches.  What a
\* subscriber was last called with is always the row list of the refetched quarter
\* as the backend held it after some committed change, but not necessarily after
\* the latest one: when two change events each trigger a refetch and the refetches
\* complete in the opposite order, all fetches are over and the subscribers are
\* left with a snapshot older than the backend's current rows (C8_Witness).
C8_SnapshotIsSomePastStateOfTheQuarter ==
    \A cb \in Callbacks :
        lastSeen[cb].got =>
            /\ lastSeen[cb].asOf + 1 \in 1..Len(tableLog)
            /\ lastSeen[cb].data = RowsOfTable(tableLog[lastSeen[cb].asOf + 1],
                                               lastSeen[cb].quarter)

C8_Witness ==
    /\ Quiet
    /\ channelErrors = 0
    /\ channels[1].state = "open"
    /\ channels[2].state = "unused"
    /\ \E cb \in Callbacks, c1 \in CallIds, c2 \in CallIds :
          /\ handles = {cb}
          /\ subscribers = {cb}
          /\ c1 < c2
          /\ calls[c1].pc = "returned" /\ calls[c1].owner = Handler(1)
          /\ calls[c2].pc = "returned" /\ calls[c2].owner = Handler(1)
          /\ calls[c1].resp.asOf < calls[c2].resp.asOf
          /\ calls[c2].resp.asOf = Len(tableLog) - 1
          /\ calls[c2].resp.data = SelectQuarter(channels[1].quarter)
          /\ lastSeen[cb] = SnapshotOf(c1)
          /\ lastSeen[cb].data # SelectQuarter(channels[1].quarter)

\* C10: as long as no channel error was reported, at most one real-time channel is
\* open, it is the one the service holds in realtimeChannel, and a channel is open
\* exactly when the subscriber set is non-empty: the subscribe that makes the set
\* non-empty opens it, subscribes made while the set is non-empty keep it, and the
\* unsubscribe that empties the set closes it.
C10_OneChannelIffSubscribers ==
    /\ [](channelErrors = 0 =>
            /\ Cardinality(OpenChannels) <= 1
            /\ OpenChannels = (IF realtimeChannel = NoChannel THEN {}
                               ELSE {realtimeChannel})
            /\ (OpenChannels # {} <=> subscribers # {}))
    /\ [][channelErrors' = 0 =>
            /\ (subscribers = {} /\ subscribers' # {} =>
                   /\ realtimeChannel = NoChannel
                   /\ realtimeChannel' # NoChannel)
            /\ (subscribers # {} /\ subscribers' # {} =>
                   realtimeChannel' = realtimeChannel)
            /\ (subscribers # {} /\ subscribers' = {} =>
                   /\ realtimeChannel' = NoChannel
                   /\ channels'[realtimeChannel].state = "closed")]_vars

C10_Witness ==
    /\ channelErrors = 0
    /\ channels[1].state = "closed"
    /\ realtimeChannel = 2
    /\ channels[2].state = "open"
    /\ subscribers = Callbacks
    /\ Cardinality(subscribers) >= 2

\* C20 as claimed: every subscriber is called with rows of the quarter it passed
\* to its own subscribeToUpdates call, also when subscribers that registered with
\* different quarters share the channel.
C20_NotifiedWithOwnQuarter ==
    \A cb \in Callbacks :
        lastSeen[cb].got =>
            /\ lastSeen[cb].quarter = QuarterOf(cb)
            /\ \A i \in 1..Len(lastSeen[cb].data) :
                  RowQuarter(lastSeen[cb].data[i]) = QuarterOf(cb)

\* C21: once the unsubscribe function of a callback has been called the callback
\* is out of the subscriber set and, until it is passed to subscribeToUpdates
\* again, it is not called any more, also not by the broadcast of a refetch that
\* was in flight when unsubscribe was called.
C21_UnsubscribedNeverInvoked ==
    /\ [][\A cb \in Callbacks : Unsubscribe(cb) => cb \notin subscribers']_vars
    /\ [][\A cb \in Callbacks :
            cb \in handles /\ cb \notin subscribers
            => notified'[cb] = notified[cb] /\ lastSeen'[cb] = lastSeen[cb]]_vars

\* The callback that opened the channel has unsubscribed without ever being
\* called; a handler refetch has since been broadcast to the other subscriber.
C21_Witness ==
    \E cb \in Callbacks, other \in Callbacks, c \in CallIds :
        /\ cb \in handles /\ cb \notin subscribers /\ notified[cb] = 0
        /\ other \in subscribers /\ notified[other] >= 1
        /\ QuarterOf(other) # QuarterOf(cb)
        /\ realtimeChannel # NoChannel
        /\ channels[realtimeChannel].quarter = QuarterOf(cb)
        /\ calls[c].pc = "returned" /\ calls[c].owner = Handler(realtimeChannel)
        /\ lastSeen[other] = SnapshotOf(c)

\* C22: the reconnect timer of a CHANNEL_ERROR leaves the service without a
\* channel, the channel that reported the error closed and the subscriber set as
\* it was; the next subscribeToUpdates call opens a new channel and keeps the
\* subscribers; and every broadcast, of whichever channel's handler, calls every
\* registered subscriber.
C22_SubscribersSurviveReconnect ==
    /\ [][ReconnectTimerFires
            => /\ realtimeChannel' = NoChannel
               /\ channels'[ErroredChannel].state = "closed"
               /\ subscribers' = subscribers]_vars
    /\ [][\A cb \in Callbacks :
            Subscribe(cb, QuarterOf(cb)) /\ realtimeChannel = NoChannel
            => /\ realtimeChannel' # NoChannel
               /\ channels[realtimeChannel'].state = "unused"
               /\ channels'[realtimeChannel'].state = "open"
               /\ subscribers \subseteq subscribers']_vars
    /\ [][\A c \in CallIds :
            ReceiveData(c) /\ calls[c].owner.kind = "handler"
            => \A cb \in subscribers : notified'[cb] > notified[cb]]_vars

\* Channel 1 reported an error and was torn down by the timer; the subscriber
\* that had opened it is still registered and was called by the handler of the
\* channel a later subscribeToUpdates opened.
C22_Witness ==
    \E cb \in Callbacks, c \in CallIds :
        /\ channelErrors >= 1 /\ reconnectTimers = <<>>
        /\ channels[1].state = "closed" /\ channels[1].quarter = QuarterOf(cb)
        /\ realtimeChannel = 2 /\ channels[2].quarter # QuarterOf(cb)
        /\ cb \in subscribers
        /\ calls[c].pc = "returned" /\ calls[c].owner = Handler(2)
        /\ lastSeen[cb] = SnapshotOf(c)

\* C23 as claimed: the reconnect timer closes only the channel that reported the
\* error; every other channel, in particular one opened after the errored one
\* was closed by the last unsubscribe, is left as it is.
C23_TimerClosesOnlyErroredChannel ==
    [][ReconnectTimerFires
         => \A ch \in ChannelIds :
               ch # ErroredChannel => channels'[ch].state = channels[ch].state]_vars

\* C24: a broadcast calls every callback of the subscriber set once, all with the
\* same snapshot, whether or not some of them throw, and calls no other callback.
C24_BroadcastReachesAllSubscribers ==
    [][\A c \in CallIds :
          ReceiveData(c) /\ calls[c].owner.kind = "handler"
          => \A cb \in Callbacks :
                IF cb \in subscribers
                THEN notified'[cb] = notified[cb] + 1 /\ lastSeen'[cb] = SnapshotOf(c)
                ELSE notified'[cb] = notified[cb] /\ lastSeen'[cb] = lastSeen[cb]]_vars

\* A callback that throws and one registered along with it were both called, with
\* the same snapshot.
C24_Witness ==
    \E thrower \in Callbacks, cb \in Callbacks :
        /\ Throws(thrower) /\ ~Throws(cb) /\ thrower < cb
        /\ {thrower, cb} \subseteq subscribers
        /\ notified[thrower] >= 1 /\ notified[cb] = notified[thrower]
        /\ lastSeen[cb].got /\ lastSeen[cb] = lastSeen[thrower]

\* C25: when the refetch of a notification fails, no subscriber is called and the
\* subscriber set, the channel and its pending notifications are as before.
C25_FailedRefetchNotifiesNobody ==
    [][\A c \in CallIds :
          calls[c].owner.kind = "handler" /\ calls[c].pc = "answered"
          /\ calls'[c].pc = "thrown"
          => /\ notified' = notified /\ lastSeen' = lastSeen
             /\ subscribers' = subscribers
             /\ realtimeChannel' = realtimeChannel
             /\ channels' = channels]_vars

\* A refetch failed, and the refetch of a later notification of the same channel
\* was broadcast.
C25_Witness ==
    \E failed \in CallIds, c \in CallIds, cb \in Callbacks :
        /\ calls[failed].pc = "thrown" /\ calls[failed].owner.kind = "handler"
        /\ calls[c].pc = "returned" /\ calls[c].owner = calls[failed].owner
        /\ lastSettled = "returned"
        /\ cb \in subscribers /\ notified[cb] = 1 /\ lastSeen[cb] = SnapshotOf(c)

\* ---- the hook
\* call c returns to the hook in this step
DeliversToHook(c) ==
    /\ calls[c].pc = "answered"
    /\ calls'[c].pc = "returned"
    /\ HookGets(c)

\* C7: every delivery, be it a completed loadPortfolioData or a real-time
\* notification, replaces portfolioData with exactly the delivered list, nothing
\* is merged or compared; and nothing but a delivery changes portfolioData, so
\* after any sequence of deliveries it is the list delivered last.
C7_DeliveryReplacesPortfolioData ==
    [][/\ \A c \in CallIds : DeliversToHook(c) => portfolioData' = calls[c].resp.data
       /\ portfolioData' # portfolioData => \E c \in CallIds : DeliversToHook(c)]_vars

C7_Witness ==
    \E c1 \in CallIds, c2 \in CallIds :
        /\ calls[c1].pc = "returned" /\ calls[c1].owner = Load
        /\ calls[c2].pc = "returned" /\ calls[c2].owner.kind = "handler"
        /\ calls[c1].resp.data # <<>>
        /\ calls[c2].resp.data # <<>>
        /\ calls[c1].resp.data # calls[c2].resp.data
        /\ hookSub /\ HookCallback \in subscribers
        /\ portfolioData = calls[c2].resp.data

HookFetchInFlight == \E c \in CallIds : InFlight(c)

LastFetchSucceeded ==
    /\ ~error.set
    /\ \E c \in CallIds : calls[c].pc = "returned" /\ calls[c].owner = Load

\* C9: whenever no portfolio fetch is in flight and the last fetch succeeded,
\* portfolioData holds rows of the currently selected quarter only, also when the
\* quarter was changed while an earlier fetch was still in flight.
C9_DataIsOfSelectedQuarter ==
    (~HookFetchInFlight /\ LastFetchSucceeded) =>
        \A i \in 1..Len(portfolioData) : RowQuarter(portfolioData[i]) = selectedQuarter

====
